---- MODULE Spec2Model ----
(***************************************************************************)
(* Cue-to-transcript alignment and audio splitting of video-maker          *)
(* (src/server.py).                                                        *)
(*                                                                         *)
(* Representation.                                                         *)
(*  - A Python string that is a single whitespace-free token is a sequence *)
(*    of one-character strings; a string that the code later splits on     *)
(*    whitespace is the sequence of its tokens.                            *)
(*  - Python lists and dict keys are 0-based; the model keeps the source's *)
(*    0-based indices and reads a sequence with At(s, i) == s[i + 1].      *)
(*  - Times are exact integers counting units of 25 ms (the source uses    *)
(*    floats in seconds); word timestamps are even, so that the midpoint   *)
(*    (a + b) / 2.0 of two timestamps is an integer number of units.       *)
(*  - Scores are integers counting thousandths (round(score, 3) * 1000).   *)
(***************************************************************************)
EXTENDS Integers, Sequences, FiniteSets, TLC

(***************************************************************************)
(* Bounds of the explored inputs.                                          *)
(***************************************************************************)
MaxCues == 2
MaxWords == 2

(***************************************************************************)
(* Generic helpers.                                                        *)
(***************************************************************************)
At(s, i) == s[i + 1]

Min2(a, b) == IF a <= b THEN a ELSE b

Max2(a, b) == IF a >= b THEN a ELSE b

SetMin(S) == CHOOSE x \in S : \A y \in S : x <= y

SetMax(S) == CHOOSE x \in S : \A y \in S : x >= y

RECURSIVE Concat(_)
Concat(ss) == IF ss = <<>> THEN <<>> ELSE Head(ss) \o Concat(Tail(ss))

(***************************************************************************)
(* Characters.                                                             *)
(***************************************************************************)
UpperLetters ==
  <<"A","B","C","D","E","F","G","H","I","J","K","L","M","N","O","P","Q","R","S","T","U","V","W","X","Y","Z">>

LowerLetters ==
  <<"a","b","c","d","e","f","g","h","i","j","k","l","m","n","o","p","q","r","s","t","u","v","w","x","y","z">>

DigitChars == <<"0","1","2","3","4","5","6","7","8","9">>

Range(s) == {s[k] : k \in DOMAIN s}

IsDigit(ch) == ch \in Range(DigitChars)

DigitVal(ch) == (CHOOSE k \in DOMAIN DigitChars : DigitChars[k] = ch) - 1

\* str.lower() on one character
lower_char(ch) ==
  IF ch \in Range(UpperLetters)
    THEN LowerLetters[CHOOSE k \in DOMAIN UpperLetters : UpperLetters[k] = ch]
    ELSE ch

\* str.lower()
lower(w) == [k \in DOMAIN w |-> lower_char(w[k])]

\* the regular expression class \w: letters, digits and the underscore
IsWordChar(ch) ==
  \/ ch \in Range(UpperLetters)
  \/ ch \in Range(LowerLetters)
  \/ IsDigit(ch)
  \/ ch = "_"

\* the argument of token.strip(...) in expand_numbers_in_text
STRIP_CHARS ==
  {".", ",", "!", "?", ";", ":", "'", "\"", "(", ")", "-", "[", "]", "{", "}"}

RECURSIVE lstrip(_)
lstrip(w) ==
  IF w # <<>> /\ Head(w) \in STRIP_CHARS THEN lstrip(Tail(w)) ELSE w

RECURSIVE rstrip(_)
rstrip(w) ==
  IF w # <<>> /\ w[Len(w)] \in STRIP_CHARS
    THEN rstrip(SubSeq(w, 1, Len(w) - 1))
    ELSE w

\* token.strip('.,!?;:\'"()-[]{}')
strip(w) == rstrip(lstrip(w))

\* str.isdigit()
isdigit(w) == w # <<>> /\ \A k \in DOMAIN w : IsDigit(w[k])

\* int(s) for a string of decimal digits
RECURSIVE int(_)
int(w) ==
  IF w = <<>> THEN 0
  ELSE 10 * int(SubSeq(w, 1, Len(w) - 1)) + DigitVal(w[Len(w)])

\* str(n) for n >= 0
RECURSIVE str(_)
str(n) ==
  IF n < 10 THEN <<DigitChars[n + 1]>>
  ELSE Append(str(n \div 10), DigitChars[(n % 10) + 1])

(***************************************************************************)
(* Number-to-words conversion.  A phrase such as 'twenty one' is the       *)
(* sequence of its words.                                                  *)
(***************************************************************************)
_ONES ==
  << <<>>,
     <<"o","n","e">>,
     <<"t","w","o">>,
     <<"t","h","r","e","e">>,
     <<"f","o","u","r">>,
     <<"f","i","v","e">>,
     <<"s","i","x">>,
     <<"s","e","v","e","n">>,
     <<"e","i","g","h","t">>,
     <<"n","i","n","e">>,
     <<"t","e","n">>,
     <<"e","l","e","v","e","n">>,
     <<"t","w","e","l","v","e">>,
     <<"t","h","i","r","t","e","e","n">>,
     <<"f","o","u","r","t","e","e","n">>,
     <<"f","i","f","t","e","e","n">>,
     <<"s","i","x","t","e","e","n">>,
     <<"s","e","v","e","n","t","e","e","n">>,
     <<"e","i","g","h","t","e","e","n">>,
     <<"n","i","n","e","t","e","e","n">> >>

_TENS ==
  << <<>>,
     <<>>,
     <<"t","w","e","n","t","y">>,
     <<"t","h","i","r","t","y">>,
     <<"f","o","r","t","y">>,
     <<"f","i","f","t","y">>,
     <<"s","i","x","t","y">>,
     <<"s","e","v","e","n","t","y">>,
     <<"e","i","g","h","t","y">>,
     <<"n","i","n","e","t","y">> >>

\* the dict `special` of _ordinal_to_words
special ==
  (1 :> <<"f","i","r","s","t">>) @@ (2 :> <<"s","e","c","o","n","d">>) @@
  (3 :> <<"t","h","i","r","d">>) @@ (5 :> <<"f","i","f","t","h">>) @@
  (8 :> <<"e","i","g","h","t","h">>) @@ (9 :> <<"n","i","n","t","h">>) @@
  (12 :> <<"t","w","e","l","f","t","h">>)

\* phrase + suffix: the suffix lands on the last word of the phrase
AddSuffix(phrase, suffix) ==
  IF phrase = <<>> THEN <<suffix>>
  ELSE [phrase EXCEPT ![Len(phrase)] = @ \o suffix]

RECURSIVE _int_to_words(_)
_int_to_words(n) ==
  IF n = 0 THEN << <<"z","e","r","o">> >>
  ELSE IF n < 0 THEN << <<"n","e","g","a","t","i","v","e">> >> \o _int_to_words(-n)
  ELSE IF n < 20 THEN << At(_ONES, n) >>
  ELSE IF n < 100 THEN
    << At(_TENS, n \div 10) >> \o (IF n % 10 # 0 THEN << At(_ONES, n % 10) >> ELSE <<>>)
  ELSE IF n < 1000 THEN
    << At(_ONES, n \div 100), <<"h","u","n","d","r","e","d">> >>
      \o (IF n % 100 # 0 THEN _int_to_words(n % 100) ELSE <<>>)
  ELSE IF n < 100000 THEN
    _int_to_words(n \div 1000) \o << <<"t","h","o","u","s","a","n","d">> >>
      \o (IF n % 1000 # 0 THEN _int_to_words(n % 1000) ELSE <<>>)
  ELSE << str(n) >>

\* _ordinal_to_words building 21..99 as the cardinal plus 'th'
_ordinal_to_words_cardinal_th(n) ==
  IF n <= 0 THEN _int_to_words(n)
  ELSE IF n \in DOMAIN special THEN << special[n] >>
  ELSE IF n < 20 THEN
    LET base == At(_ONES, n)
    IN  IF base[Len(base)] = "e"
          THEN << SubSeq(base, 1, Len(base) - 1) \o <<"t","h">> >>
          ELSE << base \o <<"t","h">> >>
  ELSE IF n < 100 /\ n % 10 = 0 THEN
    LET base == At(_TENS, n \div 10)
    IN  << SubSeq(base, 1, Len(base) - 1) \o <<"i","e","t","h">> >>
  ELSE AddSuffix(_int_to_words(n), <<"t","h">>)

RECURSIVE _ordinal_to_words(_)
_ordinal_to_words(n) ==
  IF n <= 0 THEN _int_to_words(n)
  ELSE IF n \in DOMAIN special THEN << special[n] >>
  ELSE IF n < 20 THEN
    LET base == At(_ONES, n)
    IN  IF base[Len(base)] = "e"
          THEN << SubSeq(base, 1, Len(base) - 1) \o <<"t","h">> >>
          ELSE << base \o <<"t","h">> >>
  ELSE IF n < 100 /\ n % 10 = 0 THEN
    LET base == At(_TENS, n \div 10)
    IN  << SubSeq(base, 1, Len(base) - 1) \o <<"i","e","t","h">> >>
  ELSE IF n < 100 THEN << At(_TENS, n \div 10) >> \o _ordinal_to_words(n % 10)
  ELSE AddSuffix(_int_to_words(n), <<"t","h">>)

\* re.match(r'^(\d+)(st|nd|rd|th)$', lower): the digits of group 1, or <<>>
ORDINAL_SUFFIXES == { <<"s","t">>, <<"n","d">>, <<"r","d">>, <<"t","h">> }

ordinal_match(w) ==
  IF /\ Len(w) >= 3
     /\ SubSeq(w, Len(w) - 1, Len(w)) \in ORDINAL_SUFFIXES
     /\ isdigit(SubSeq(w, 1, Len(w) - 2))
    THEN SubSeq(w, 1, Len(w) - 2)
    ELSE <<>>

\* re.match(r'^(\d+)\.(\d+)$', stripped): the position of the dot, or 0
decimal_match(w) ==
  LET dots == {k \in DOMAIN w : w[k] = "."}
  IN  IF /\ Cardinality(dots) = 1
         /\ LET k == CHOOSE d \in dots : TRUE
            IN  /\ isdigit(SubSeq(w, 1, k - 1))
                /\ isdigit(SubSeq(w, k + 1, Len(w)))
        THEN CHOOSE d \in dots : TRUE
        ELSE 0

\* the words one token of the text contributes to the expanded text
expand_token(token) ==
  LET stripped == strip(token)
      low      == lower(stripped)
      dot      == decimal_match(stripped)
  IN  IF ordinal_match(low) # <<>> THEN _ordinal_to_words(int(ordinal_match(low)))
      ELSE IF isdigit(stripped) THEN _int_to_words(int(stripped))
      ELSE IF dot # 0 THEN
        LET frac == SubSeq(stripped, dot + 1, Len(stripped))
        IN  _int_to_words(int(SubSeq(stripped, 1, dot - 1)))
              \o << <<"p","o","i","n","t">> >>
              \o Concat([k \in DOMAIN frac |-> _int_to_words(DigitVal(frac[k]))])
      ELSE << token >>

\* expand_numbers_in_text(text), text and result as token sequences
expand_numbers_in_text(text) ==
  Concat([k \in DOMAIN text |-> expand_token(text[k])])

(***************************************************************************)
(* Word normalization and comparison.                                      *)
(***************************************************************************)
\* re.sub(r'[^\w]', '', w.lower())
normalize_word(w) == SelectSeq(lower(w), IsWordChar)

\* the module-level lookup tables _WORD_TO_NUM and _NUM_TO_WORDS
VARIABLES tables

\* both tables are built for i in range(200)
NUM_RANGE == 200

\* the tables as the module-level loops leave them at load; a dict whose
\* values are all True is the set of its keys
LoadedTables ==
  [_WORD_TO_NUM  |-> UNION {Range(_int_to_words(i)) \ {<<>>} : i \in 0..(NUM_RANGE - 1)},
   _NUM_TO_WORDS |-> [a \in {str(i) : i \in 0..(NUM_RANGE - 1)} |->
                        _int_to_words(int(a))]]

\* a in _NUM_TO_WORDS
InNumToWords(a) == a \in DOMAIN tables._NUM_TO_WORDS

\* _NUM_TO_WORDS[a].split()
_NUM_TO_WORDS(a) == tables._NUM_TO_WORDS[a]

\* sum(1 for x, y in zip(a, b) if x != y)
diffs(a, b) == Cardinality({k \in 1..Min2(Len(a), Len(b)) : a[k] # b[k]})

startswith(longer, shorter) ==
  /\ Len(shorter) <= Len(longer)
  /\ SubSeq(longer, 1, Len(shorter)) = shorter

\* words_similar with the prefix rule tested for a as a prefix of b only
words_similar_prefix_ordered(a, b) ==
  IF a = <<>> \/ b = <<>> THEN FALSE
  ELSE IF a = b THEN TRUE
  ELSE IF InNumToWords(a) /\ b \in Range(_NUM_TO_WORDS(a)) THEN TRUE
  ELSE IF InNumToWords(b) /\ a \in Range(_NUM_TO_WORDS(b)) THEN TRUE
  ELSE IF Len(a) >= 4 /\ Len(b) >= 4 /\ Len(a) = Len(b) /\ diffs(a, b) <= 1 THEN TRUE
  ELSE IF Len(a) >= 3 /\ Len(b) >= 3 THEN
    startswith(b, a) /\ Len(b) - Len(a) <= 2
  ELSE FALSE

\* words_similar without the guard `if not a or not b: return False`
words_similar_without_guard(a, b) ==
  IF a = b THEN TRUE
  ELSE IF InNumToWords(a) /\ b \in Range(_NUM_TO_WORDS(a)) THEN TRUE
  ELSE IF InNumToWords(b) /\ a \in Range(_NUM_TO_WORDS(b)) THEN TRUE
  ELSE IF Len(a) >= 4 /\ Len(b) >= 4 /\ Len(a) = Len(b) /\ diffs(a, b) <= 1 THEN TRUE
  ELSE IF Len(a) >= 3 /\ Len(b) >= 3 THEN
    LET shorter == IF Len(a) <= Len(b) THEN a ELSE b
        longer  == IF Len(a) <= Len(b) THEN b ELSE a
    IN  startswith(longer, shorter) /\ Len(longer) - Len(shorter) <= 2
  ELSE FALSE

\* words_similar testing the number table for its first argument only
words_similar_number_first(a, b) ==
  IF a = <<>> \/ b = <<>> THEN FALSE
  ELSE IF a = b THEN TRUE
  ELSE IF InNumToWords(a) /\ b \in Range(_NUM_TO_WORDS(a)) THEN TRUE
  ELSE IF Len(a) >= 4 /\ Len(b) >= 4 /\ Len(a) = Len(b) /\ diffs(a, b) <= 1 THEN TRUE
  ELSE IF Len(a) >= 3 /\ Len(b) >= 3 THEN
    LET shorter == IF Len(a) <= Len(b) THEN a ELSE b
        longer  == IF Len(a) <= Len(b) THEN b ELSE a
    IN  startswith(longer, shorter) /\ Len(longer) - Len(shorter) <= 2
  ELSE FALSE

\* words_similar without the exact-match rule `if a == b: return True`
words_similar_without_equality(a, b) ==
  IF a = <<>> \/ b = <<>> THEN FALSE
  ELSE IF InNumToWords(a) /\ b \in Range(_NUM_TO_WORDS(a)) THEN TRUE
  ELSE IF InNumToWords(b) /\ a \in Range(_NUM_TO_WORDS(b)) THEN TRUE
  ELSE IF Len(a) >= 4 /\ Len(b) >= 4 /\ Len(a) = Len(b) /\ diffs(a, b) <= 1 THEN TRUE
  ELSE IF Len(a) >= 3 /\ Len(b) >= 3 THEN
    LET shorter == IF Len(a) <= Len(b) THEN a ELSE b
        longer  == IF Len(a) <= Len(b) THEN b ELSE a
    IN  startswith(longer, shorter) /\ Len(longer) - Len(shorter) <= 2
  ELSE FALSE

words_similar(a, b) ==
  IF a = <<>> \/ b = <<>> THEN FALSE
  ELSE IF a = b THEN TRUE
  ELSE IF InNumToWords(a) /\ b \in Range(_NUM_TO_WORDS(a)) THEN TRUE
  ELSE IF InNumToWords(b) /\ a \in Range(_NUM_TO_WORDS(b)) THEN TRUE
  ELSE IF Len(a) >= 4 /\ Len(b) >= 4 /\ Len(a) = Len(b) /\ diffs(a, b) <= 1 THEN TRUE
  ELSE IF Len(a) >= 3 /\ Len(b) >= 3 THEN
    LET shorter == IF Len(a) <= Len(b) THEN a ELSE b
        longer  == IF Len(a) <= Len(b) THEN b ELSE a
    IN  startswith(longer, shorter) /\ Len(longer) - Len(shorter) <= 2
  ELSE FALSE

(***************************************************************************)
(* State of one /api/split-audio run: the inputs, the locals of            *)
(* match_cues_to_transcript and align_sequences, and the split points of   *)
(* split_audio.generate.                                                   *)
(***************************************************************************)
VARIABLES
  pc,                    \* position in the run
  cue_lines,             \* the stripped non-empty lines of the cues file
  words,                 \* the transcript: records word, start, end
  expanded_cues,         \* match_cues_to_transcript, step 1
  flat_cue_words,        \* step 2
  cue_ranges,            \* step 2: <<start, end>> per cue
  transcript_norm,       \* step 3
  c,                     \* align_sequences: cue pointer
  t,                     \* align_sequences: transcript pointer
  alignment,             \* align_sequences: dict cue index -> transcript index
  results,               \* steps 5 and 6
  total_audio_duration,  \* split_audio.generate, step 3
  split_points,          \* split_audio.generate, step 4
  call,                  \* one call of a text function: fn, args, ret
  threads,               \* the locals of concurrent match_cues_to_transcript calls
  video,                 \* create_video.py: the locals of main from step 5 on
  server                 \* the shared input and output directories and the requests in flight

\* the script is not running
NoVideo == <<>>

\* the server has no request in flight
NoServer == <<>>

vars ==
  << pc, cue_lines, words, expanded_cues, flat_cue_words, cue_ranges,
     transcript_norm, c, t, alignment, results, total_audio_duration,
     split_points, call, threads, tables, video, server >>

(***************************************************************************)
(* align_sequences.                                                        *)
(***************************************************************************)
MAX_LOOK == 15

\* alignment[k] = v
Put(al, k, v) == [x \in DOMAIN al \cup {k} |-> IF x = k THEN v ELSE al[x]]

\* for i in range(skip): alignment[c0 + i] = t0 + step * i
PutRun(al, c0, t0, skip, step) ==
  [x \in DOMAIN al \cup {c0 + i : i \in 0..(skip - 1)} |->
     IF x >= c0 /\ x < c0 + skip THEN t0 + step * (x - c0) ELSE al[x]]

\* Option A: first dt in range(1, min(MAX_LOOK + 1, m - t)) that re-syncs, or -1
t_skip(cw, tw, cp, tp) ==
  LET hits == {dt \in 1..(Min2(MAX_LOOK + 1, Len(tw) - tp) - 1) :
                 words_similar(At(cw, cp), At(tw, tp + dt))}
  IN  IF hits = {} THEN -1 ELSE SetMin(hits)

\* Option B: first dc in range(1, min(MAX_LOOK + 1, n - c)) that re-syncs, or -1
c_skip(cw, tw, cp, tp) ==
  LET hits == {dc \in 1..(Min2(MAX_LOOK + 1, Len(cw) - cp) - 1) :
                 words_similar(At(cw, cp + dc), At(tw, tp))}
  IN  IF hits = {} THEN -1 ELSE SetMin(hits)

\* Option C: first d in range(1, min(MAX_LOOK + 1, min(n - c, m - t))), or -1
d_skip(cw, tw, cp, tp) ==
  LET hits == {d \in 1..(Min2(MAX_LOOK + 1, Min2(Len(cw) - cp, Len(tw) - tp)) - 1) :
                 words_similar(At(cw, cp + d), At(tw, tp + d))}
  IN  IF hits = {} THEN -1 ELSE SetMin(hits)

\* the choice of the recovery with <= comparisons: on a tie the later option wins
best_action_last_wins(ts, cs, ds) ==
  LET cost0 == MAX_LOOK + 1
      takeT == ts >= 0 /\ ts <= cost0
      cost1 == IF takeT THEN ts ELSE cost0
      act1  == IF takeT THEN <<"skip_t", ts>> ELSE <<>>
      takeC == cs >= 0 /\ cs <= cost1
      cost2 == IF takeC THEN cs ELSE cost1
      act2  == IF takeC THEN <<"skip_c", cs>> ELSE act1
      takeD == ds >= 0 /\ ds <= cost2
  IN  IF takeD THEN <<"skip_both", ds>> ELSE act2

\* "Pick cheapest recovery": <<action, skip>>, or <<>> for None
best_action(ts, cs, ds) ==
  LET cost0 == MAX_LOOK + 1
      takeT == ts >= 0 /\ ts < cost0
      cost1 == IF takeT THEN ts ELSE cost0
      act1  == IF takeT THEN <<"skip_t", ts>> ELSE <<>>
      takeC == cs >= 0 /\ cs < cost1
      cost2 == IF takeC THEN cs ELSE cost1
      act2  == IF takeC THEN <<"skip_c", cs>> ELSE act1
      takeD == ds >= 0 /\ ds < cost2
  IN  IF takeD THEN <<"skip_both", ds>> ELSE act2

\* the recovery chosen at pointers (cp, tp) after a mismatch
Recovery(cw, tw, cp, tp) ==
  best_action(t_skip(cw, tw, cp, tp), c_skip(cw, tw, cp, tp), d_skip(cw, tw, cp, tp))

InLoop == pc = "align" /\ c < Len(flat_cue_words) /\ t < Len(transcript_norm)

Mismatch == InLoop /\ ~words_similar(At(flat_cue_words, c), At(transcript_norm, t))

AlignUnchanged ==
  UNCHANGED << pc, cue_lines, words, expanded_cues, flat_cue_words, cue_ranges,
               transcript_norm, results, total_audio_duration, split_points,
               call, threads, tables, video, server >>

\* direct match
AlignDirect ==
  /\ InLoop
  /\ words_similar(At(flat_cue_words, c), At(transcript_norm, t))
  /\ alignment' = Put(alignment, c, t)
  /\ c' = c + 1
  /\ t' = t + 1
  /\ AlignUnchanged

\* skip_t mapping cue word c to the transcript index before the skip
AlignSkipT_before_skip ==
  /\ Mismatch
  /\ LET best == Recovery(flat_cue_words, transcript_norm, c, t)
     IN  /\ best # <<>>
         /\ best[1] = "skip_t"
         /\ alignment' = Put(alignment, c, t)
         /\ c' = c + 1
         /\ t' = t + best[2] + 1
  /\ AlignUnchanged

\* skip_t moving on without an entry for cue word c
AlignSkipT_unmapped ==
  /\ Mismatch
  /\ LET best == Recovery(flat_cue_words, transcript_norm, c, t)
     IN  /\ best # <<>>
         /\ best[1] = "skip_t"
         /\ alignment' = alignment
         /\ c' = c + 1
         /\ t' = t + best[2] + 1
  /\ AlignUnchanged

\* skip_t: extra words in the transcript
AlignSkipT ==
  /\ Mismatch
  /\ LET best == Recovery(flat_cue_words, transcript_norm, c, t)
     IN  /\ best # <<>>
         /\ best[1] = "skip_t"
         /\ alignment' = Put(alignment, c, t + best[2])
         /\ c' = c + 1
         /\ t' = t + best[2] + 1
  /\ AlignUnchanged

\* skip_c pairing the skipped cue words with successive transcript indices
AlignSkipC_positional ==
  /\ Mismatch
  /\ LET best == Recovery(flat_cue_words, transcript_norm, c, t)
     IN  /\ best # <<>>
         /\ best[1] = "skip_c"
         /\ alignment' = Put(PutRun(alignment, c, t, best[2], 1), c + best[2], t)
         /\ c' = c + best[2] + 1
         /\ t' = t + 1
  /\ AlignUnchanged

\* skip_c leaving the transcript pointer where it is
AlignSkipC_same_t ==
  /\ Mismatch
  /\ LET best == Recovery(flat_cue_words, transcript_norm, c, t)
     IN  /\ best # <<>>
         /\ best[1] = "skip_c"
         /\ alignment' = Put(PutRun(alignment, c, t, best[2], 0), c + best[2], t)
         /\ c' = c + best[2] + 1
         /\ t' = t
  /\ AlignUnchanged

\* skip_c: cue words the transcript missed
AlignSkipC ==
  /\ Mismatch
  /\ LET best == Recovery(flat_cue_words, transcript_norm, c, t)
     IN  /\ best # <<>>
         /\ best[1] = "skip_c"
         /\ alignment' = Put(PutRun(alignment, c, t, best[2], 0), c + best[2], t)
         /\ c' = c + best[2] + 1
         /\ t' = t + 1
  /\ AlignUnchanged

\* skip_both: substituted words, paired positionally
AlignSkipBoth ==
  /\ Mismatch
  /\ LET best == Recovery(flat_cue_words, transcript_norm, c, t)
     IN  /\ best # <<>>
         /\ best[1] = "skip_both"
         /\ alignment' =
              Put(PutRun(alignment, c, t, best[2], 1), c + best[2], t + best[2])
         /\ c' = c + best[2] + 1
         /\ t' = t + best[2] + 1
  /\ AlignUnchanged

\* the forced step moving on without recording the pair
AlignForce_unrecorded ==
  /\ Mismatch
  /\ Recovery(flat_cue_words, transcript_norm, c, t) = <<>>
  /\ alignment' = alignment
  /\ c' = c + 1
  /\ t' = t + 1
  /\ AlignUnchanged

\* no re-sync found within the lookahead: force the pair
AlignForce ==
  /\ Mismatch
  /\ Recovery(flat_cue_words, transcript_norm, c, t) = <<>>
  /\ alignment' = Put(alignment, c, t)
  /\ c' = c + 1
  /\ t' = t + 1
  /\ AlignUnchanged

\* the return without the tail assignment
tail_assign_skipped(al, cp, n, m) == al

\* the tail assignment writing the first transcript index
tail_assign_to_first(al, cp, n, m) ==
  IF cp < n /\ m > 0
    THEN [x \in DOMAIN al \cup cp..(n - 1) |-> IF x >= cp THEN 0 ELSE al[x]]
    ELSE al

\* the tail assignment writing m, one past the last transcript index
tail_assign_past_end(al, cp, n, m) ==
  IF cp < n /\ m > 0
    THEN [x \in DOMAIN al \cup cp..(n - 1) |-> IF x >= cp THEN m ELSE al[x]]
    ELSE al

\* the remaining cue words after the loop, assigned to the last transcript word
tail_assign(al, cp, n, m) ==
  IF cp < n /\ m > 0
    THEN [x \in DOMAIN al \cup cp..(n - 1) |-> IF x >= cp THEN m - 1 ELSE al[x]]
    ELSE al

\* loop exit, tail assignment and return
AlignReturn ==
  /\ pc = "align"
  /\ ~(c < Len(flat_cue_words) /\ t < Len(transcript_norm))
  /\ alignment' = tail_assign(alignment, c, Len(flat_cue_words), Len(transcript_norm))
  /\ pc' = "extract"
  /\ UNCHANGED << cue_lines, words, expanded_cues, flat_cue_words, cue_ranges,
                  transcript_norm, c, t, results, total_audio_duration,
                  split_points, call, threads, tables, video, server >>

(***************************************************************************)
(* match_cues_to_transcript.                                               *)
(***************************************************************************)
\* [normalize_word(w) for w in line.split() if normalize_word(w)]
words_in_cue(line) ==
  SelectSeq([k \in DOMAIN line |-> normalize_word(line[k])], LAMBDA w : w # <<>>)

\* flat_cue_words after the loop of step 2
flatten(cues) == Concat([k \in DOMAIN cues |-> words_in_cue(cues[k])])

\* cue_ranges with end = len(flat_cue_words) after the cue's words are added
ranges_end_at_length(cues) ==
  [k \in DOMAIN cues |->
     LET start == Len(flatten(SubSeq(cues, 1, k - 1)))
     IN  << start, start + Len(words_in_cue(cues[k])) >>]

\* cue_ranges after the loop of step 2: start = len(flat_cue_words) before the
\* cue's words are added, end = len(flat_cue_words) - 1 after
ranges(cues) ==
  [k \in DOMAIN cues |->
     LET start == Len(flatten(SubSeq(cues, 1, k - 1)))
     IN  << start, start + Len(words_in_cue(cues[k])) - 1 >>]

\* round(aligned_count / cue_word_count, 3), in thousandths
round3(a, n) ==
  LET q == (1000 * a) \div n
      r == (1000 * a) % n
  IN  IF 2 * r < n THEN q
      ELSE IF 2 * r > n THEN q + 1
      ELSE IF q % 2 = 0 THEN q ELSE q + 1

INTERPOLATED == << <<"(","i","n","t","e","r","p","o","l","a","t","e","d",")">> >>

\* step 5 for one cue, reading the end time at first_t instead of last_t
extract_cue_end_at_first(cue_idx, range, al, ws, lines) ==
  LET cue_start == range[1]
      cue_end   == range[2]
      hit       == {ci \in cue_start..cue_end : ci \in DOMAIN al}
      t_indices == {al[ci] : ci \in hit}
  IN  IF hit # {} THEN
        LET first_t == SetMin(t_indices)
            last_t  == SetMax(t_indices)
            score   == round3(Cardinality(hit), cue_end - cue_start + 1)
        IN  [cue_index    |-> cue_idx,
             cue_text     |-> At(lines, cue_idx),
             status       |-> IF score >= 500 THEN "matched" ELSE "partial",
             matched_text |-> [k \in 1..(last_t - first_t + 1) |->
                                 At(ws, first_t + k - 1).word],
             start        |-> At(ws, first_t).start,
             end          |-> At(ws, first_t).end,
             score        |-> score]
      ELSE
        [cue_index    |-> cue_idx,
         cue_text     |-> At(lines, cue_idx),
         status       |-> "failed",
         matched_text |-> <<>>,
         start        |-> 0,
         end          |-> 0,
         score        |-> 0]

\* step 5 for one cue, scoring the distinct transcript indices instead of the
\* aligned cue words
extract_cue_score_distinct(cue_idx, range, al, ws, lines) ==
  LET cue_start == range[1]
      cue_end   == range[2]
      hit       == {ci \in cue_start..cue_end : ci \in DOMAIN al}
      t_indices == {al[ci] : ci \in hit}
  IN  IF hit # {} THEN
        LET first_t == SetMin(t_indices)
            last_t  == SetMax(t_indices)
            score   == round3(Cardinality(t_indices), cue_end - cue_start + 1)
        IN  [cue_index    |-> cue_idx,
             cue_text     |-> At(lines, cue_idx),
             status       |-> IF score >= 500 THEN "matched" ELSE "partial",
             matched_text |-> [k \in 1..(last_t - first_t + 1) |->
                                 At(ws, first_t + k - 1).word],
             start        |-> At(ws, first_t).start,
             end          |-> At(ws, last_t).end,
             score        |-> score]
      ELSE
        [cue_index    |-> cue_idx,
         cue_text     |-> At(lines, cue_idx),
         status       |-> "failed",
         matched_text |-> <<>>,
         start        |-> 0,
         end          |-> 0,
         score        |-> 0]

\* step 5 for one cue
extract_cue(cue_idx, range, al, ws, lines) ==
  LET cue_start == range[1]
      cue_end   == range[2]
      hit       == {ci \in cue_start..cue_end : ci \in DOMAIN al}
      t_indices == {al[ci] : ci \in hit}
  IN  IF hit # {} THEN
        LET first_t == SetMin(t_indices)
            last_t  == SetMax(t_indices)
            score   == round3(Cardinality(hit), cue_end - cue_start + 1)
        IN  [cue_index    |-> cue_idx,
             cue_text     |-> At(lines, cue_idx),
             status       |-> IF score >= 500 THEN "matched" ELSE "partial",
             matched_text |-> [k \in 1..(last_t - first_t + 1) |->
                                 At(ws, first_t + k - 1).word],
             start        |-> At(ws, first_t).start,
             end          |-> At(ws, last_t).end,
             score        |-> score]
      ELSE
        [cue_index    |-> cue_idx,
         cue_text     |-> At(lines, cue_idx),
         status       |-> "failed",
         matched_text |-> <<>>,
         start        |-> 0,
         end          |-> 0,
         score        |-> 0]

\* step 5, appending a result only for the cues that have aligned words
extract_aligned_only(rngs, al, ws, lines) ==
  SelectSeq([k \in DOMAIN rngs |-> extract_cue(k - 1, rngs[k], al, ws, lines)],
            LAMBDA r : r.status # "failed")

\* step 5
extract(rngs, al, ws, lines) ==
  [k \in DOMAIN rngs |-> extract_cue(k - 1, rngs[k], al, ws, lines)]

\* step 6 for results[i] (0-based i), on the list as it is at that iteration
interpolate_cue(res, i, ws) ==
  LET before == {j \in 0..(i - 1) : At(res, j).status # "failed"}
      after  == {j \in (i + 1)..(Len(res) - 1) : At(res, j).status # "failed"}
      prev_end   == IF before = {} THEN 0 ELSE At(res, SetMax(before)).end
      next_start == IF after # {} THEN At(res, SetMin(after)).start
                    ELSE IF ws # <<>> THEN ws[Len(ws)].end ELSE 0
  IN  IF At(res, i).status = "failed" /\ (prev_end > 0 \/ next_start > 0)
        THEN [res EXCEPT ![i + 1] =
                [@ EXCEPT !.start = prev_end,
                          !.end = next_start,
                          !.status = "partial",
                          !.matched_text = INTERPOLATED,
                          !.score = 500]]
        ELSE res

\* step 6: the loop from index i on; results is updated in place
RECURSIVE interpolate_from(_, _, _)
interpolate_from(res, i, ws) ==
  IF i >= Len(res) THEN res
  ELSE interpolate_from(interpolate_cue(res, i, ws), i + 1, ws)

interpolate(res, ws) == interpolate_from(res, 0, ws)

MatchUnchanged ==
  UNCHANGED << cue_lines, words, c, t, total_audio_duration, split_points,
               call, threads, tables, video, server >>

\* step 1
Expand ==
  /\ pc = "start"
  /\ expanded_cues' = [k \in DOMAIN cue_lines |-> expand_numbers_in_text(cue_lines[k])]
  /\ pc' = "flatten"
  /\ UNCHANGED << flat_cue_words, cue_ranges, transcript_norm, alignment, results >>
  /\ MatchUnchanged

\* step 2
Flatten ==
  /\ pc = "flatten"
  /\ flat_cue_words' = flatten(expanded_cues)
  /\ cue_ranges' = ranges(expanded_cues)
  /\ pc' = "normalize"
  /\ UNCHANGED << expanded_cues, transcript_norm, alignment, results >>
  /\ MatchUnchanged

\* step 3, and the entry into align_sequences of step 4
NormalizeTranscript ==
  /\ pc = "normalize"
  /\ transcript_norm' = [k \in DOMAIN words |-> normalize_word(words[k].word)]
  /\ pc' = "align"
  /\ UNCHANGED << expanded_cues, flat_cue_words, cue_ranges, alignment, results >>
  /\ MatchUnchanged

\* step 5
Extract ==
  /\ pc = "extract"
  /\ results' = extract(cue_ranges, alignment, words, cue_lines)
  /\ pc' = "interpolate"
  /\ UNCHANGED << expanded_cues, flat_cue_words, cue_ranges, transcript_norm, alignment >>
  /\ MatchUnchanged

\* step 6 and return
Interpolate ==
  /\ pc = "interpolate"
  /\ results' = interpolate(results, words)
  /\ pc' = "duration"
  /\ UNCHANGED << expanded_cues, flat_cue_words, cue_ranges, transcript_norm, alignment >>
  /\ MatchUnchanged

(***************************************************************************)
(* split_audio.generate, steps 3 and 4.                                    *)
(***************************************************************************)
PAD == 6

HALF_SECOND == 20

\* what ffprobe can answer: 0 stands for a non-zero return code, the other
\* values for the duration of an audio that holds every transcribed word
EXTRA_AUDIO == {0, 8}

LastEnd(ws) == IF ws = <<>> THEN 0 ELSE ws[Len(ws)].end

Probed(ws) == {0} \cup {LastEnd(ws) + x : x \in EXTRA_AUDIO}

\* total_audio_duration after the fallback of step 3
duration_fallback(probed, ws) ==
  IF probed = 0 /\ ws # <<>> THEN ws[Len(ws)].end + HALF_SECOND ELSE probed

\* the entry of split_points for matches[i]: <<>> for None
split_point(matches, i, total) ==
  LET m == At(matches, i)
      cut_start ==
        IF i = 0 THEN 0
        ELSE LET prev == At(matches, i - 1)
             IN  IF prev.status # "failed" /\ prev.end > 0
                   THEN (prev.end + m.start) \div 2
                   ELSE Max2(0, m.start - PAD)
      cut_end ==
        IF i = Len(matches) - 1 THEN total
        ELSE LET nxt == At(matches, i + 1)
             IN  IF nxt.status # "failed" /\ nxt.start > 0
                   THEN (m.end + nxt.start) \div 2
                   ELSE m.end + PAD
  IN  IF m.status = "failed" THEN <<>> ELSE << cut_start, cut_end >>

compute_split_points(matches, total) ==
  [k \in DOMAIN matches |-> split_point(matches, k - 1, total)]

ProbeDuration ==
  /\ pc = "duration"
  /\ \E probed \in Probed(words) :
       total_audio_duration' = duration_fallback(probed, words)
  /\ pc' = "split"
  /\ UNCHANGED << cue_lines, words, expanded_cues, flat_cue_words, cue_ranges,
                  transcript_norm, c, t, alignment, results, split_points,
                  call, threads, tables, video, server >>

ComputeSplitPoints ==
  /\ pc = "split"
  /\ split_points' = compute_split_points(results, total_audio_duration)
  /\ pc' = "done"
  /\ UNCHANGED << cue_lines, words, expanded_cues, flat_cue_words, cue_ranges,
                  transcript_norm, c, t, alignment, results, total_audio_duration,
                  call, threads, tables, video, server >>

\* no text function is being called
NO_CALL == [fn |-> "", args |-> <<>>, ret |-> <<>>]

(***************************************************************************)
(* Inputs.                                                                 *)
(***************************************************************************)
LINE_HELLO_WORLD ==
  << <<"H","e","l","l","o">>, <<"w","o","r","l","d">> >>

LINE_HELLO ==
  << <<"h","e","l","l","o">> >>

LINE_DOTS ==
  << <<".",".",".">> >>

LINE_3 ==
  << <<"3">> >>

LINE_CATS ==
  << <<"c","a","t","s">> >>

TW_HELLO ==
  <<"H","E","L","L","O">>

TW_THREE ==
  <<"T","H","R","E","E">>

TW_DASH ==
  <<"-">>

SCN_CLEAN_CUES ==
  << << <<"H","e","l","l","o">>, <<"w","o","r","l","d">> >>, << <<"T","h","r","e","e">>, <<"c","a","t","s">>, <<"r","a","n">> >> >>

SCN_CLEAN_WORDS ==
  << [word |-> <<"H","E","L","L","O">>, start |-> 0, end |-> 20], [word |-> <<"W","O","R","L","D">>, start |-> 20, end |-> 40], [word |-> <<"T","H","R","E","E">>, start |-> 40, end |-> 52], [word |-> <<"C","A","T","S">>, start |-> 52, end |-> 64], [word |-> <<"R","A","N">>, start |-> 64, end |-> 80] >>

SCN_NUMERAL_CUES ==
  << << <<"I">>, <<"h","a","v","e">>, <<"3">>, <<"d","o","g","s">> >> >>

SCN_NUMERAL_WORDS ==
  << [word |-> <<"I">>, start |-> 0, end |-> 8], [word |-> <<"H","A","V","E">>, start |-> 8, end |-> 20], [word |-> <<"T","H","R","E","E">>, start |-> 20, end |-> 36], [word |-> <<"D","O","G","S",".">>, start |-> 36, end |-> 60] >>

SCN_MISS_CUES ==
  << << <<"H","e","l","l","o">> >>, << <<".",".",".">> >>, << <<"w","o","r","l","d">> >> >>

SCN_MISS_WORDS ==
  << [word |-> <<"H","E","L","L","O">>, start |-> 0, end |-> 40], [word |-> <<"W","O","R","L","D">>, start |-> 120, end |-> 160] >>

SCN_RUN_CUES ==
  << << <<"H","e","l","l","o">> >>, << <<".",".",".">> >>, << <<"-","-">> >>, << <<"w","o","r","l","d">> >> >>

SCN_SAME_WORD_CUES ==
  << << <<"h","e","l","l","o">> >>, << <<".",".",".">> >>, << <<"w","o","r","l","d">> >> >>

SCN_TAIL_CUES ==
  << << <<"h","e","l","l","o">> >>, << <<"w","o","r","l","d">> >> >>

SCN_BIG_NUMERAL_CUES ==
  << << <<"1","2","3","4","5","6","7">>, <<"3",".","5">>, <<"2","1","s","t">> >>, << <<"0","0","7">> >> >>

SCN_ONE_WORD ==
  << [word |-> <<"H","E","L","L","O">>, start |-> 0, end |-> 20] >>

\* cue lines, as the tokens of line.split()
CueLineSet ==
  { LINE_HELLO_WORLD,
    LINE_HELLO,
    LINE_DOTS,
    LINE_3,
    LINE_CATS }

\* transcript words as transcribe_audio_to_words returns them (upper case)
TranscriptTexts ==
  { TW_HELLO, TW_THREE, TW_DASH }

Gaps == {0, 2}

\* the end of word k: every word lasts 2 units (50 ms)
RECURSIVE EndOf(_, _)
EndOf(gaps, k) == IF k = 0 THEN 0 ELSE EndOf(gaps, k - 1) + gaps[k] + 2

\* words with the given texts, separated by the given silences
Timed(texts, gaps) ==
  [k \in DOMAIN texts |->
     [word |-> texts[k], start |-> EndOf(gaps, k) - 2, end |-> EndOf(gaps, k)]]

SeqsUpTo(S, n) == UNION {[1..k -> S] : k \in 0..n}

BoundedTranscripts ==
  UNION {{Timed(tx, gp) : tx \in [1..k -> TranscriptTexts], gp \in [1..k -> Gaps]} :
           k \in 0..MaxWords}

\* the scenarios of the specification's testable properties, and longer runs
Scenarios ==
  { << SCN_CLEAN_CUES, SCN_CLEAN_WORDS >>,
    << SCN_NUMERAL_CUES, SCN_NUMERAL_WORDS >>,
    << SCN_MISS_CUES, SCN_MISS_WORDS >>,
    << SCN_RUN_CUES, SCN_MISS_WORDS >>,
    << SCN_SAME_WORD_CUES, SCN_ONE_WORD >>,
    << SCN_TAIL_CUES, SCN_ONE_WORD >>,
    << SCN_SAME_WORD_CUES, <<>> >>,
    << SCN_BIG_NUMERAL_CUES, SCN_NUMERAL_WORDS >> }

Inputs == (SeqsUpTo(CueLineSet, MaxCues) \X BoundedTranscripts) \cup Scenarios

Init ==
  /\ \E in \in Inputs : cue_lines = in[1] /\ words = in[2]
  /\ pc = "start"
  /\ expanded_cues = <<>>
  /\ flat_cue_words = <<>>
  /\ cue_ranges = <<>>
  /\ transcript_norm = <<>>
  /\ c = 0
  /\ t = 0
  /\ alignment = <<>>
  /\ results = <<>>
  /\ total_audio_duration = 0
  /\ split_points = <<>>
  /\ call = NO_CALL
  /\ threads = <<>>
  /\ tables = LoadedTables
  /\ video = NoVideo
  /\ server = NoServer

Next ==
  \/ Expand
  \/ Flatten
  \/ NormalizeTranscript
  \/ AlignDirect
  \/ AlignSkipT
  \/ AlignSkipC
  \/ AlignSkipBoth
  \/ AlignForce
  \/ AlignReturn
  \/ Extract
  \/ Interpolate
  \/ ProbeDuration
  \/ ComputeSplitPoints

Spec == Init /\ [][Next]_vars

(***************************************************************************)
(* align_sequences on its own: the two word lists are drawn directly, so   *)
(* that they may hold words match_cues_to_transcript never passes on the   *)
(* cue side (the empty string).                                            *)
(***************************************************************************)
MaxAlignCue == 3
MaxAlignTr == 3

AW_GOIN ==
  <<"g","o","i","n">>

AW_GOING ==
  <<"g","o","i","n","g">>

AW_3 ==
  <<"3">>

AW_THREE ==
  <<"t","h","r","e","e">>

AlignWords ==
  { <<>>, AW_GOING, AW_3, AW_THREE }

\* n copies of x
Repeat(x, n) == [k \in 1..n |-> x]

\* lists longer than the lookahead window
AlignScenarios ==
  { << Repeat(<<>>, MAX_LOOK + 2) \o << AW_GOING >>,
       Repeat(<<>>, MAX_LOOK + 2) \o << AW_GOING >> >>,
    << Repeat(AW_3, MAX_LOOK + 2) \o << AW_GOING >>,
       << AW_GOIN >> \o Repeat(<<>>, MAX_LOOK + 2) >>,
    << << AW_GOING >> \o Repeat(AW_3, MAX_LOOK + 2),
       Repeat(<<>>, MAX_LOOK + 2) \o << AW_GOIN >> >>,
    << << AW_GOING >>, Repeat(<<>>, MAX_LOOK) \o << AW_GOIN >> >>,
    << << AW_GOING >>, Repeat(<<>>, MAX_LOOK + 1) \o << AW_GOIN >> >>,
    << Repeat(AW_3, MAX_LOOK) \o << AW_GOING >>, << AW_GOIN, <<>> >> >>,
    << Repeat(AW_3, MAX_LOOK + 1) \o << AW_GOING >>, << AW_GOIN, <<>> >> >>,
    << Repeat(AW_3, MAX_LOOK) \o << AW_GOING >>, Repeat(<<>>, MAX_LOOK) \o << AW_GOIN >> >>,
    << Repeat(AW_3, MAX_LOOK + 1) \o << AW_GOING >>, Repeat(<<>>, MAX_LOOK + 1) \o << AW_GOIN >> >>,
    << << AW_GOING, AW_GOING >>, << AW_GOING >> \o Repeat(<<>>, MAX_LOOK) \o << AW_GOIN >> >> }

AlignInputs ==
  (SeqsUpTo(AlignWords, MaxAlignCue) \X SeqsUpTo(AlignWords, MaxAlignTr))
    \cup AlignScenarios

InitAlign ==
  /\ \E in \in AlignInputs : flat_cue_words = in[1] /\ transcript_norm = in[2]
  /\ pc = "align"
  /\ cue_lines = <<>>
  /\ words = <<>>
  /\ expanded_cues = <<>>
  /\ cue_ranges = <<>>
  /\ c = 0
  /\ t = 0
  /\ alignment = <<>>
  /\ results = <<>>
  /\ total_audio_duration = 0
  /\ split_points = <<>>
  /\ call = NO_CALL
  /\ threads = <<>>
  /\ tables = LoadedTables
  /\ video = NoVideo
  /\ server = NoServer

NextAlign ==
  \/ AlignDirect
  \/ AlignSkipT
  \/ AlignSkipC
  \/ AlignSkipBoth
  \/ AlignForce
  \/ AlignReturn

SpecAlign == InitAlign /\ [][NextAlign]_vars

(***************************************************************************)
(* Concurrent invocations of match_cues_to_transcript.  Every invocation   *)
(* has its own locals, threads[i]; the only module-level state the         *)
(* function reaches is tables, through words_similar.  A step of an        *)
(* invocation is one step of the sequential run above.                     *)
(***************************************************************************)
NumCalls == 2

\* the locals of an invocation at its entry
NewCall(lines, ws) ==
  [pc              |-> "start",
   cue_lines       |-> lines,
   words           |-> ws,
   expanded_cues   |-> <<>>,
   flat_cue_words  |-> <<>>,
   cue_ranges      |-> <<>>,
   transcript_norm |-> <<>>,
   c               |-> 0,
   t               |-> 0,
   alignment       |-> <<>>,
   results         |-> <<>>]

\* one iteration of the main loop of align_sequences: << c, t, alignment >>
align_iteration(cw, tw, cp, tp, al) ==
  IF words_similar(At(cw, cp), At(tw, tp)) THEN << cp + 1, tp + 1, Put(al, cp, tp) >>
  ELSE
    LET best == Recovery(cw, tw, cp, tp)
    IN  IF best = <<>> THEN << cp + 1, tp + 1, Put(al, cp, tp) >>
        ELSE IF best[1] = "skip_t" THEN
          << cp + 1, tp + best[2] + 1, Put(al, cp, tp + best[2]) >>
        ELSE IF best[1] = "skip_c" THEN
          << cp + best[2] + 1, tp + 1,
             Put(PutRun(al, cp, tp, best[2], 0), cp + best[2], tp) >>
        ELSE
          << cp + best[2] + 1, tp + best[2] + 1,
             Put(PutRun(al, cp, tp, best[2], 1), cp + best[2], tp + best[2]) >>

\* the main loop from (cp, tp) on, then the tail assignment
RECURSIVE align_loop(_, _, _, _, _)
align_loop(cw, tw, cp, tp, al) ==
  IF cp < Len(cw) /\ tp < Len(tw)
    THEN LET nxt == align_iteration(cw, tw, cp, tp, al)
         IN  align_loop(cw, tw, nxt[1], nxt[2], nxt[3])
    ELSE tail_assign(al, cp, Len(cw), Len(tw))

align_sequences(cw, tw) == align_loop(cw, tw, 0, 0, <<>>)

\* the result list of one invocation run alone
match_cues_to_transcript(lines, ws) ==
  LET expanded == [k \in DOMAIN lines |-> expand_numbers_in_text(lines[k])]
      norm     == [k \in DOMAIN ws |-> normalize_word(ws[k].word)]
      al       == align_sequences(flatten(expanded), norm)
  IN  interpolate(extract(ranges(expanded), al, ws, lines), ws)

\* the next step of an invocation on its own locals
local_step(th) ==
  IF th.pc = "start" THEN
    [th EXCEPT !.expanded_cues =
                 [k \in DOMAIN th.cue_lines |-> expand_numbers_in_text(th.cue_lines[k])],
               !.pc = "flatten"]
  ELSE IF th.pc = "flatten" THEN
    [th EXCEPT !.flat_cue_words = flatten(th.expanded_cues),
               !.cue_ranges = ranges(th.expanded_cues),
               !.pc = "normalize"]
  ELSE IF th.pc = "normalize" THEN
    [th EXCEPT !.transcript_norm = [k \in DOMAIN th.words |-> normalize_word(th.words[k].word)],
               !.pc = "align"]
  ELSE IF th.pc = "align" THEN
    IF th.c < Len(th.flat_cue_words) /\ th.t < Len(th.transcript_norm)
      THEN LET nxt == align_iteration(th.flat_cue_words, th.transcript_norm,
                                      th.c, th.t, th.alignment)
           IN  [th EXCEPT !.c = nxt[1], !.t = nxt[2], !.alignment = nxt[3]]
      ELSE [th EXCEPT !.alignment = tail_assign(th.alignment, th.c,
                                                Len(th.flat_cue_words),
                                                Len(th.transcript_norm)),
                      !.pc = "extract"]
  ELSE IF th.pc = "extract" THEN
    [th EXCEPT !.results = extract(th.cue_ranges, th.alignment, th.words, th.cue_lines),
               !.pc = "interpolate"]
  ELSE
    [th EXCEPT !.results = interpolate(th.results, th.words),
               !.pc = "returned"]

\* a step of invocation i with flat_cue_words kept in one module-level list
\* that every invocation extends
run_step_shared_flat(ths, i) ==
  LET th     == local_step(ths[i])
      before == Concat([j \in DOMAIN ths |->
                          IF j # i THEN ths[j].flat_cue_words ELSE <<>>])
  IN  IF ths[i].pc = "flatten"
        THEN [ths EXCEPT ![i] =
                [th EXCEPT !.flat_cue_words = before \o @,
                           !.cue_ranges = [k \in DOMAIN @ |->
                                             << @[k][1] + Len(before),
                                                @[k][2] + Len(before) >>]]]
        ELSE [ths EXCEPT ![i] = th]

\* a step of invocation i: it reads and writes the locals of i only
run_step(ths, i) == [ths EXCEPT ![i] = local_step(ths[i])]

ConcInputs ==
  { << SCN_CLEAN_CUES, SCN_CLEAN_WORDS >>,
    << SCN_NUMERAL_CUES, SCN_NUMERAL_WORDS >>,
    << SCN_MISS_CUES, SCN_MISS_WORDS >>,
    << SCN_TAIL_CUES, SCN_ONE_WORD >> }

InitConc ==
  /\ threads \in [1..NumCalls -> {NewCall(in[1], in[2]) : in \in ConcInputs}]
  /\ pc = "concurrent"
  /\ cue_lines = <<>>
  /\ words = <<>>
  /\ expanded_cues = <<>>
  /\ flat_cue_words = <<>>
  /\ cue_ranges = <<>>
  /\ transcript_norm = <<>>
  /\ c = 0
  /\ t = 0
  /\ alignment = <<>>
  /\ results = <<>>
  /\ total_audio_duration = 0
  /\ split_points = <<>>
  /\ call = NO_CALL
  /\ tables = LoadedTables
  /\ video = NoVideo
  /\ server = NoServer

ConcUnchanged ==
  UNCHANGED << pc, cue_lines, words, expanded_cues, flat_cue_words, cue_ranges,
               transcript_norm, c, t, alignment, results, total_audio_duration,
               split_points, call, tables, video, server >>

\* invocation i is at position p and takes its step
StepAt(i, p) ==
  /\ threads[i].pc = p
  /\ threads' = run_step(threads, i)
  /\ ConcUnchanged

InLoopOf(i) ==
  /\ threads[i].c < Len(threads[i].flat_cue_words)
  /\ threads[i].t < Len(threads[i].transcript_norm)

ConcExpand == \E i \in DOMAIN threads : StepAt(i, "start")

ConcFlatten == \E i \in DOMAIN threads : StepAt(i, "flatten")

ConcNormalize == \E i \in DOMAIN threads : StepAt(i, "normalize")

ConcAlignIteration == \E i \in DOMAIN threads : InLoopOf(i) /\ StepAt(i, "align")

ConcAlignReturn == \E i \in DOMAIN threads : ~InLoopOf(i) /\ StepAt(i, "align")

ConcExtract == \E i \in DOMAIN threads : StepAt(i, "extract")

ConcInterpolate == \E i \in DOMAIN threads : StepAt(i, "interpolate")

NextConc ==
  \/ ConcExpand
  \/ ConcFlatten
  \/ ConcNormalize
  \/ ConcAlignIteration
  \/ ConcAlignReturn
  \/ ConcExtract
  \/ ConcInterpolate

SpecConc == InitConc /\ [][NextConc]_vars

(***************************************************************************)
(* The text functions on their own: one call with drawn arguments.         *)
(***************************************************************************)
MaxNumeral == 230
MaxOrdinal == 125

\* numbers beyond the number table, up to the largest the expander converts
LargeNumerals == {999, 1000, 21345, 99999}

Numerals == 0..MaxNumeral \cup LargeNumerals

\* a digit string paired, in both orders, with a word of its cardinal expansion
NumeralPairs ==
  UNION {{ << str(n), w >> : w \in Range(_int_to_words(n)) } \cup
         { << w, str(n) >> : w \in Range(_int_to_words(n)) } : n \in Numerals}

TXT_SEVEN ==
  <<"s","e","v","e","n">>

TXT_PLACE ==
  <<"p","l","a","c","e">>

TXT_PLACE_DOT ==
  <<"p","l","a","c","e",".">>

TXT_THE ==
  <<"T","h","e">>

\* digit strings that are not the str() of their number
PaddedPairs ==
  { << <<"0","0","7">>, TXT_SEVEN >>, << TXT_SEVEN, <<"0","3">> >> }

\* the English suffix of the ordinal numeral n
ordinal_suffix(n) ==
  IF (n % 100) \in 11..13 THEN <<"t","h">>
  ELSE IF n % 10 = 1 THEN <<"s","t">>
  ELSE IF n % 10 = 2 THEN <<"n","d">>
  ELSE IF n % 10 = 3 THEN <<"r","d">>
  ELSE <<"t","h">>

\* the token '21st' of n = 21
ordinal_token(n) == str(n) \o ordinal_suffix(n)

\* texts around an ordinal token: '21st place', 'The 21ST, place.', 'place 21th'
OrdinalTexts ==
  UNION {{ << ordinal_token(n), TXT_PLACE >>,
           << TXT_THE, str(n) \o <<"S","T">> \o <<",">>, TXT_PLACE_DOT >>,
           << TXT_PLACE, str(n) \o <<"t","h">> >> } : n \in 1..MaxOrdinal}

\* normalized words: the empty string, digit strings, number words, words
\* one character apart, prefixes one, two and three characters short
SimilarWords ==
  { <<>>,
    <<"3">>,
    <<"1","2">>,
    <<"t","h","r","e","e">>,
    <<"t","w","e","l","v","e">>,
    <<"g","o">>,
    <<"g","o","i">>,
    <<"g","o","i","n">>,
    <<"g","o","i","n","g">>,
    <<"g","o","i","n","g","s">>,
    <<"c","a","t","s">>,
    <<"c","a","r","s">>,
    <<"c","a","t">>,
    <<"c","a","r">>,
    <<"a","_","1">> }

WordPairs == SimilarWords \X SimilarWords

\* words as cue lines and transcripts hold them: mixed case, punctuation
\* around and inside, an underscore, a blank, digits, nothing left
RawWords ==
  { <<"H","e","l","l","o",",">>,
    <<"D","O","G","S",".">>,
    <<"i","t","'","s">>,
    <<"X","-","r","a","y">>,
    <<"3",".","5">>,
    <<"a","_","1">>,
    <<"_","_">>,
    <<" ","G","o">>,
    <<".",".",".">>,
    <<"-">>,
    <<>> } \cup SimilarWords

TextCalls ==
  {[fn |-> "words_similar", args |-> p, ret |-> <<>>] :
     p \in NumeralPairs \cup PaddedPairs \cup WordPairs}
    \cup
  {[fn |-> "expand_numbers_in_text", args |-> << x >>, ret |-> <<>>] :
     x \in OrdinalTexts}
    \cup
  {[fn |-> "normalize_word", args |-> << w >>, ret |-> <<>>] :
     w \in RawWords}

InitText ==
  /\ call \in TextCalls
  /\ pc = "text"
  /\ cue_lines = <<>>
  /\ words = <<>>
  /\ expanded_cues = <<>>
  /\ flat_cue_words = <<>>
  /\ cue_ranges = <<>>
  /\ transcript_norm = <<>>
  /\ c = 0
  /\ t = 0
  /\ alignment = <<>>
  /\ results = <<>>
  /\ total_audio_duration = 0
  /\ split_points = <<>>
  /\ threads = <<>>
  /\ tables = LoadedTables
  /\ video = NoVideo
  /\ server = NoServer

TextUnchanged ==
  UNCHANGED << pc, cue_lines, words, expanded_cues, flat_cue_words, cue_ranges,
               transcript_norm, c, t, alignment, results, total_audio_duration,
               split_points, threads, tables, video, server >>

CallWordsSimilar ==
  /\ pc = "text"
  /\ call.fn = "words_similar"
  /\ call.ret = <<>>
  /\ call' = [call EXCEPT !.ret = << words_similar(call.args[1], call.args[2]) >>]
  /\ TextUnchanged

CallExpandNumbers ==
  /\ pc = "text"
  /\ call.fn = "expand_numbers_in_text"
  /\ call.ret = <<>>
  /\ call' = [call EXCEPT !.ret = << expand_numbers_in_text(call.args[1]) >>]
  /\ TextUnchanged

CallNormalizeWord ==
  /\ pc = "text"
  /\ call.fn = "normalize_word"
  /\ call.ret = <<>>
  /\ call' = [call EXCEPT !.ret = << normalize_word(call.args[1]) >>]
  /\ TextUnchanged

NextText ==
  \/ CallWordsSimilar
  \/ CallExpandNumbers
  \/ CallNormalizeWord

SpecText == InitText /\ [][NextText]_vars

(***************************************************************************)
(* Properties.                                                             *)
(***************************************************************************)
\* align_sequences has returned
Aligned == pc = "extract"

\* match_cues_to_transcript has returned
Returned == pc \in {"duration", "split", "done"}

\* split_points is built
Split == pc = "done"

\* C1: match_cues_to_transcript returns exactly one result per cue line, in cue
\* order; result i carries cue_index i and the text of cue line i.
C1_OneResultPerCue ==
  Returned =>
    /\ Len(results) = Len(cue_lines)
    /\ \A k \in DOMAIN results :
         /\ results[k].cue_index = k - 1
         /\ results[k].cue_text = cue_lines[k]

\* C1 witness: three cues against an empty transcript, after the return
C1_Witness ==
  /\ Returned
  /\ words = <<>>
  /\ Len(cue_lines) = 3
  /\ Len(results) = 3

\* C2: every result returned by match_cues_to_transcript has start <= end,
\* results timed by the interpolation pass included.
C2_StartNotAfterEnd ==
  Returned => \A k \in DOMAIN results : results[k].start <= results[k].end

\* C3: after match_cues_to_transcript returns no result has status 'failed', and
\* every start and end is a non-negative number.
C3_NoFailedResult ==
  Returned =>
    \A k \in DOMAIN results :
      /\ results[k].status # "failed"
      /\ results[k].start >= 0
      /\ results[k].end >= 0

\* C4: when the cue word list and the transcript word list are equal,
\* align_sequences maps every position i to i.
C4_ExactMatchIdentity ==
  (Aligned /\ flat_cue_words = transcript_norm) =>
    alignment = [i \in 0..(Len(flat_cue_words) - 1) |-> i]

\* C4 witness: equal lists that hold an empty string and two neighbouring words
\* that are similar without being equal
C4_Witness ==
  /\ Aligned
  /\ flat_cue_words = transcript_norm
  /\ \E k \in DOMAIN flat_cue_words : flat_cue_words[k] = <<>>
  /\ \E k \in 1..(Len(flat_cue_words) - 1) :
       /\ flat_cue_words[k] # flat_cue_words[k + 1]
       /\ words_similar(flat_cue_words[k], flat_cue_words[k + 1])
  /\ DOMAIN alignment = 0..(Len(flat_cue_words) - 1)

\* C5: the split points are contiguous: for consecutive cues i and i + 1 that
\* both have a split point, the cut end of cue i is the cut start of cue i + 1.
C5_ContiguousSplitPoints ==
  Split =>
    \A k \in 1..(Len(split_points) - 1) :
      (split_points[k] # <<>> /\ split_points[k + 1] # <<>>) =>
        split_points[k][2] = split_points[k + 1][1]

\* C6: for a non-empty cue list the first cue's cut start is 0 and the last
\* cue's cut end is the total audio duration.
C6_SplitPointsCoverAudio ==
  (Split /\ cue_lines # <<>>) =>
    /\ split_points[1] # <<>>
    /\ split_points[1][1] = 0
    /\ split_points[Len(split_points)] # <<>>
    /\ split_points[Len(split_points)][2] = total_audio_duration

\* C7: every split point satisfies 0 <= cutStart <= cutEnd <= total audio
\* duration, the total audio duration being at least the last word's end.
C7_SplitPointsWithinAudio ==
  (Split /\ total_audio_duration >= LastEnd(words)) =>
    \A k \in DOMAIN split_points :
      split_points[k] # <<>> =>
        /\ 0 <= split_points[k][1]
        /\ split_points[k][1] <= split_points[k][2]
        /\ split_points[k][2] <= total_audio_duration

\* C8: every cue line has exactly one split point: split_points has one entry
\* per cue and no entry is None.
C8_OneSplitPointPerCue ==
  Split =>
    /\ Len(split_points) = Len(cue_lines)
    /\ \A k \in DOMAIN split_points : split_points[k] # <<>>

\* the flattened cue words equal the normalized transcript words one for one
CleanAlignment == Returned /\ flat_cue_words = transcript_norm

\* the clean-alignment result of cue k: matched, score 1.0, from the start of
\* the word at its first flat position to the end of the word at its last
CleanResult(k) ==
  /\ results[k].status = "matched"
  /\ results[k].score = 1000
  /\ results[k].start = At(words, cue_ranges[k][1]).start
  /\ results[k].end = At(words, cue_ranges[k][2]).end

\* C9 as stated: under a clean alignment every cue is 'matched' with score 1.0,
\* from the start of the transcript word at its first flat position to the end
\* of the one at its last flat position.
C9_CleanAlignmentEveryCue ==
  CleanAlignment => \A k \in DOMAIN results : CleanResult(k)

\* C9 amended: under a clean alignment every cue that has at least one
\* normalized word is 'matched' with score 1.0, from the start of the transcript
\* word at its first flat position to the end of the one at its last.
C9_CleanAlignment ==
  CleanAlignment =>
    \A k \in DOMAIN results :
      cue_ranges[k][1] <= cue_ranges[k][2] => CleanResult(k)

\* C9 witness: cues of 2 and 3 words over 5 words give (0.0, 1.0) and (1.0, 2.0)
C9_Witness ==
  /\ CleanAlignment
  /\ cue_ranges = << <<0, 1>>, <<2, 4>> >>
  /\ Len(words) = 5
  /\ results[1].start = 0 /\ results[1].end = 40
  /\ results[2].start = 40 /\ results[2].end = 80
  /\ results[1].score = 1000 /\ results[2].score = 1000

\* cue k (1-based) has aligned words after extraction
HasAligned(k) ==
  \E ci \in cue_ranges[k][1]..cue_ranges[k][2] : ci \in DOMAIN alignment

\* C10: every cue without aligned words ends as 'partial', from the end of the
\* nearest earlier cue that had aligned words (0 if none) to the start of the
\* nearest later cue that had aligned words (the last word's end if none).
C10_InterpolatedFromMatchedNeighbours ==
  Returned =>
    \A k \in DOMAIN results :
      ~HasAligned(k) =>
        LET earlier == {j \in 1..(k - 1) : HasAligned(j)}
            later   == {j \in (k + 1)..Len(results) : HasAligned(j)}
        IN  /\ results[k].status = "partial"
            /\ results[k].start =
                 (IF earlier = {} THEN 0 ELSE results[SetMax(earlier)].end)
            /\ results[k].end =
                 (IF later = {} THEN LastEnd(words) ELSE results[SetMin(later)].start)

\* words_similar has returned for the arguments of call
SimilarReturned == call.fn = "words_similar" /\ call.ret # <<>>

\* the arguments are the str() of a number up to top and, in either order, a
\* word of that number's cardinal expansion
NumeralPairUpTo(args, top) ==
  \E k \in 1..2 :
    LET d == args[k]
        w == args[3 - k]
    IN  /\ isdigit(d)
        /\ int(d) <= top
        /\ str(int(d)) = d
        /\ w \in Range(_int_to_words(int(d)))

\* the arguments are a string of digits and, in either order, a word of the
\* cardinal expansion of the number it denotes
DigitStringPair(args) ==
  \E k \in 1..2 :
    /\ isdigit(args[k])
    /\ int(args[k]) <= 99999
    /\ args[3 - k] \in Range(_int_to_words(int(args[k])))

\* C11 as stated: words_similar(d, w) and words_similar(w, d) are true for every
\* bare digit string d of a number from 0 to 99,999 and every word w of its
\* cardinal expansion.
C11_NumeralEquivalenceAll ==
  (SimilarReturned /\ DigitStringPair(call.args)) => call.ret[1] = TRUE

\* C11 amended: words_similar(d, w) and words_similar(w, d) are true for every d
\* that is the decimal form, without leading zeros, of a number from 0 to 199
\* and every word w of its cardinal expansion.
C11_NumeralEquivalence ==
  (SimilarReturned /\ NumeralPairUpTo(call.args, NUM_RANGE - 1)) => call.ret[1] = TRUE

\* C11 witness: a word against the digit string '199', found similar
C11_Witness ==
  /\ SimilarReturned
  /\ call.args[2] = <<"1","9","9">>
  /\ call.args[1] = At(_TENS, 9)
  /\ call.ret[1] = TRUE

\* expand_numbers_in_text has returned for the argument of call
ExpandReturned == call.fn = "expand_numbers_in_text" /\ call.ret # <<>>

\* the spoken ordinals of the units 1..9
UNIT_ORDINALS ==
  << <<"f","i","r","s","t">>, <<"s","e","c","o","n","d">>, <<"t","h","i","r","d">>,
     <<"f","o","u","r","t","h">>, <<"f","i","f","t","h">>, <<"s","i","x","t","h">>,
     <<"s","e","v","e","n","t","h">>, <<"e","i","g","h","t","h">>,
     <<"n","i","n","t","h">> >>

\* the number of an ordinal token N(st|nd|rd|th), or -1
OrdinalOf(token) ==
  LET digits == ordinal_match(lower(strip(token)))
  IN  IF digits = <<>> THEN -1 ELSE int(digits)

\* an ordinal token from 21 to 99 that is not a multiple of ten
CompoundOrdinal(token) ==
  /\ OrdinalOf(token) \in 21..99
  /\ OrdinalOf(token) % 10 # 0

\* C12: expand_numbers_in_text replaces each ordinal token from 21 to 99 that is
\* not a multiple of ten by the tens word followed by the ordinal word of the
\* units digit, and leaves the other tokens in their original order.
C12_OrdinalExpansion ==
  (ExpandReturned /\ \E k \in DOMAIN call.args[1] : CompoundOrdinal(call.args[1][k])) =>
    call.ret[1] =
      Concat([k \in DOMAIN call.args[1] |->
                LET token == call.args[1][k]
                IN  IF CompoundOrdinal(token)
                      THEN << At(_TENS, OrdinalOf(token) \div 10),
                              UNIT_ORDINALS[OrdinalOf(token) % 10] >>
                      ELSE << token >>])

\* C12 witness: expand('21st place') = 'twenty first place'
C12_Witness ==
  /\ ExpandReturned
  /\ call.args[1] = << <<"2","1","s","t">>, TXT_PLACE >>
  /\ call.ret[1] = << At(_TENS, 2), UNIT_ORDINALS[1], TXT_PLACE >>

(***************************************************************************)
(* C13.                                                                    *)
(***************************************************************************)
\* the indices of cue_words one iteration of the main loop may read
CueReads(cp, tp, n, m) ==
  {cp} \cup {cp + dc : dc \in 1..(Min2(MAX_LOOK + 1, n - cp) - 1)}
       \cup {cp + d : d \in 1..(Min2(MAX_LOOK + 1, Min2(n - cp, m - tp)) - 1)}

\* the indices of transcript_words one iteration of the main loop may read
TranscriptReads(cp, tp, n, m) ==
  {tp} \cup {tp + dt : dt \in 1..(Min2(MAX_LOOK + 1, m - tp) - 1)}
       \cup {tp + d : d \in 1..(Min2(MAX_LOOK + 1, Min2(n - cp, m - tp)) - 1)}

\* the cue of cue_ranges[k] has a word with an alignment entry
HasHit(k) ==
  \E ci \in cue_ranges[k][1]..cue_ranges[k][2] : ci \in DOMAIN alignment

\* C13: match_cues_to_transcript never raises: every index the main loop reads
\* lies inside its list, every transcript index step 5 reads from the alignment
\* lies inside words, the score is never divided by zero, and a result list
\* with one entry per cue (none for no cue) is returned.
C13_NeverRaises ==
  /\ InLoop =>
       /\ CueReads(c, t, Len(flat_cue_words), Len(transcript_norm))
            \subseteq 0..(Len(flat_cue_words) - 1)
       /\ TranscriptReads(c, t, Len(flat_cue_words), Len(transcript_norm))
            \subseteq 0..(Len(transcript_norm) - 1)
  /\ Aligned =>
       /\ \A ci \in DOMAIN alignment : alignment[ci] \in 0..(Len(words) - 1)
       /\ \A k \in DOMAIN cue_ranges :
            HasHit(k) =>
              /\ cue_ranges[k][2] - cue_ranges[k][1] + 1 > 0
              /\ k - 1 \in 0..(Len(cue_lines) - 1)
  /\ Returned =>
       /\ Len(results) = Len(cue_lines)
       /\ cue_lines = <<>> => results = <<>>

\* a returned run whose cues hold a punctuation-only cue and more words than
\* the transcript, which holds a word that normalizes to the empty string
C13_Witness ==
  /\ Returned
  /\ \E k \in DOMAIN cue_ranges : cue_ranges[k][2] < cue_ranges[k][1]
  /\ \E j \in DOMAIN transcript_norm : transcript_norm[j] = <<>>
  /\ Len(flat_cue_words) > Len(transcript_norm)
  /\ \E r \in Range(results) : r.status = "matched"

(***************************************************************************)
(* C14.                                                                    *)
(***************************************************************************)
\* one iteration of the main loop of align_sequences
LoopStep == pc = "align" /\ pc' = "align" /\ << c, t, alignment >> # << c', t', alignment' >>

\* C14: align_sequences terminates: every iteration of the main loop, in every
\* branch, moves the cue pointer and the transcript pointer forward by at
\* least 1 and neither pointer passes the end of its list, so the loop runs at
\* most min(n, m) times.
C14_LoopAdvances ==
  [][LoopStep =>
       /\ c' >= c + 1
       /\ t' >= t + 1
       /\ c' <= Len(flat_cue_words)
       /\ t' <= Len(transcript_norm)
       /\ Min2(Len(flat_cue_words) - c', Len(transcript_norm) - t')
            < Min2(Len(flat_cue_words) - c, Len(transcript_norm) - t)]_vars

\* the loop has ended after a skip_c of one cue word and a skip_t of one
\* transcript word: two iterations for three cue and three transcript words
C14_Witness ==
  /\ Aligned
  /\ c = 3
  /\ t = 3
  /\ alignment = (0 :> 0) @@ (1 :> 0) @@ (2 :> 2)

(***************************************************************************)
(* C15.                                                                    *)
(***************************************************************************)
\* C15: the alignment core holds no shared mutable state: whatever the
\* interleaving of the invocations' steps, every invocation that has returned
\* holds the result list it returns when run alone on its own cues and
\* transcript, and the module-level lookup tables are as the module load left
\* them.
C15_NoSharedState ==
  /\ \A i \in DOMAIN threads :
       threads[i].pc = "returned" =>
         threads[i].results =
           match_cues_to_transcript(threads[i].cue_lines, threads[i].words)
  /\ tables = LoadedTables

\* an invocation has returned matched results while another one, on other
\* cues, is in the middle of its alignment loop
C15_Witness ==
  \E i, j \in DOMAIN threads :
    /\ threads[i].pc = "returned"
    /\ \E r \in Range(threads[i].results) : r.status = "matched"
    /\ threads[j].pc = "align"
    /\ threads[j].c > 0
    /\ InLoopOf(j)
    /\ threads[j].cue_lines # threads[i].cue_lines

(***************************************************************************)
(* C16.  Scores are in thousandths.                                        *)
(***************************************************************************)
\* the number of flattened words of the cue of cue_ranges[k]
CueWordCount(k) == cue_ranges[k][2] - cue_ranges[k][1] + 1

\* how many of them received an alignment entry
AlignedCount(k) ==
  Cardinality({ci \in cue_ranges[k][1]..cue_ranges[k][2] : ci \in DOMAIN alignment})

\* score is the fraction aligned / count, to the nearest thousandth
IsFraction(score, aligned, count) ==
  /\ count > 0
  /\ 2 * (score * count - 1000 * aligned) <= count
  /\ 2 * (1000 * aligned - score * count) <= count

\* C16 as stated: every returned result has a score in [0, 1] that is the
\* fraction of the cue's flattened words with an alignment entry (0 for a cue
\* without words), is 'matched' whenever the score is >= 0.5 and is 'partial'
\* only for a score below 0.5.
C16_ScoreDecidesStatus ==
  Returned =>
    \A k \in DOMAIN results :
      /\ results[k].score \in 0..1000
      /\ \/ IsFraction(results[k].score, AlignedCount(k), CueWordCount(k))
         \/ CueWordCount(k) = 0 /\ results[k].score = 0
      /\ results[k].score >= 500 => results[k].status = "matched"
      /\ results[k].status = "partial" => results[k].score < 500

\* C16 amended: every returned result has a score in [0, 1]; the result of a
\* cue with aligned words has the fraction of aligned words as score and is
\* 'matched' when that fraction is at least 0.5, else 'partial'; the result of
\* a cue without aligned words is either interpolated, with status 'partial'
\* and score exactly 0.5, or left 'failed' with score 0.
C16_ScoreAndStatus ==
  Returned =>
    \A k \in DOMAIN results :
      /\ results[k].score \in 0..1000
      /\ AlignedCount(k) > 0 =>
           /\ IsFraction(results[k].score, AlignedCount(k), CueWordCount(k))
           /\ results[k].status =
                (IF 2 * AlignedCount(k) >= CueWordCount(k) THEN "matched" ELSE "partial")
      /\ AlignedCount(k) = 0 =>
           \/ /\ results[k].status = "partial"
              /\ results[k].score = 500
              /\ results[k].matched_text = INTERPOLATED
           \/ /\ results[k].status = "failed"
              /\ results[k].score = 0

\* a returned list with a two-word cue matched at score 1 through the tail
\* assignment and an interpolated cue at score 0.5
C16_Witness ==
  /\ Returned
  /\ \E k \in DOMAIN results :
       /\ results[k].status = "matched"
       /\ results[k].score = 1000
       /\ CueWordCount(k) = 2
       /\ Len(words) = 1
  /\ \E k \in DOMAIN results :
       /\ results[k].status = "partial"
       /\ results[k].score = 500

(***************************************************************************)
(* C17.                                                                    *)
(***************************************************************************)
\* C17: the alignment of align_sequences is monotonic, during the loop and
\* after the tail assignment: a later mapped cue position never maps to an
\* earlier transcript index than an earlier mapped cue position.
C17_MonotonicAlignment ==
  \A i, j \in DOMAIN alignment : i < j => alignment[i] <= alignment[j]

\* a returned alignment of three cue words whose last one was left over by the
\* loop and assigned to the last transcript index, after a step forward
C17_Witness ==
  /\ Aligned
  /\ Len(flat_cue_words) = 3
  /\ c = 2
  /\ DOMAIN alignment = 0..2
  /\ alignment[2] = Len(transcript_norm) - 1
  /\ alignment[0] < alignment[1]
  /\ alignment[1] = alignment[2]

(***************************************************************************)
(* C18.                                                                    *)
(***************************************************************************)
\* the offsets 1..15 within the transcript's end at which cue word c is
\* similar to a later transcript word
OffsetsT ==
  {d \in 1..MAX_LOOK :
     /\ t + d < Len(transcript_norm)
     /\ words_similar(At(flat_cue_words, c), At(transcript_norm, t + d))}

\* the offsets at which a later cue word is similar to transcript word t
OffsetsC ==
  {d \in 1..MAX_LOOK :
     /\ c + d < Len(flat_cue_words)
     /\ words_similar(At(flat_cue_words, c + d), At(transcript_norm, t))}

\* the offsets at which the cue and transcript words of the same distance are
\* similar
OffsetsBoth ==
  {d \in 1..MAX_LOOK :
     /\ c + d < Len(flat_cue_words)
     /\ t + d < Len(transcript_norm)
     /\ words_similar(At(flat_cue_words, c + d), At(transcript_norm, t + d))}

\* the pointers after skip-transcript, skip-cue and skip-both with offset d
AfterSkipT(d) == c' = c + 1 /\ t' = t + d + 1

AfterSkipC(d) == c' = c + d + 1 /\ t' = t + 1

AfterSkipBoth(d) == c' = c + d + 1 /\ t' = t + d + 1

\* C18: on a mismatch with some re-synchronization offset in the window, the
\* iteration applies the strategy whose smallest offset is the smallest of
\* all, preferring skip-transcript to skip-cue and skip-cue to skip-both on
\* a tie.
C18_CheapestRecovery ==
  [][(Mismatch /\ LoopStep /\ OffsetsT \cup OffsetsC \cup OffsetsBoth # {}) =>
       LET least == SetMin(OffsetsT \cup OffsetsC \cup OffsetsBoth)
       IN  IF least \in OffsetsT THEN AfterSkipT(least)
           ELSE IF least \in OffsetsC THEN AfterSkipC(least)
           ELSE AfterSkipBoth(least)]_vars

\* after a tie at offset 1 between skip-transcript and skip-cue, resolved for
\* skip-transcript: cue word 0 is mapped to transcript index 1
C18_Witness ==
  /\ pc = "align"
  /\ flat_cue_words = << AW_3, AW_GOING >>
  /\ transcript_norm = << AW_GOING, AW_THREE >>
  /\ c = 1
  /\ t = 2
  /\ alignment = (0 :> 1)

(***************************************************************************)
(* C19.                                                                    *)
(***************************************************************************)
\* the recovery chosen at the current pointers
Chosen == Recovery(flat_cue_words, transcript_norm, c, t)

\* C19: an iteration that chooses skip-cue with offset dc at (c, t) maps the
\* cue positions c .. c+dc-1 and c+dc to transcript index t, leaves every
\* other entry as it was, and leaves the pointers at (c+dc+1, t+1).
C19_SkipCue ==
  [][(Mismatch /\ LoopStep /\ Chosen # <<>> /\ Chosen[1] = "skip_c") =>
       LET dc == Chosen[2]
       IN  /\ dc >= 1
           /\ DOMAIN alignment' = DOMAIN alignment \cup c..(c + dc)
           /\ \A k \in c..(c + dc) : alignment'[k] = t
           /\ \A k \in DOMAIN alignment \ c..(c + dc) : alignment'[k] = alignment[k]
           /\ c' = c + dc + 1
           /\ t' = t + 1]_vars

\* after a skip-cue with offset 2 at (0, 0): three cue positions on transcript
\* index 0 and one transcript index consumed
C19_Witness ==
  /\ pc = "align"
  /\ flat_cue_words = << AW_3, AW_3, AW_GOING >>
  /\ transcript_norm = << AW_GOING >>
  /\ c = 3
  /\ t = 1
  /\ alignment = (0 :> 0) @@ (1 :> 0) @@ (2 :> 0)

(***************************************************************************)
(* C20.                                                                    *)
(***************************************************************************)
\* a mismatch that none of the three searches can recover from
NoRecovery == Mismatch /\ OffsetsT \cup OffsetsC \cup OffsetsBoth = {}

\* C20: on a mismatch without any re-synchronization in the window the loop
\* goes on: its step records alignment[c] = t for the dissimilar pair, moves
\* both pointers by exactly 1 and stays in align_sequences.
C20_ForcedPair ==
  /\ [](NoRecovery => ENABLED NextAlign)
  /\ [][NoRecovery =>
          /\ pc' = "align"
          /\ alignment' = Put(alignment, c, t)
          /\ c' = c + 1
          /\ t' = t + 1]_vars

\* two dissimilar pairs in a row were forced and the loop went on to its end
C20_Witness ==
  /\ pc = "align"
  /\ flat_cue_words = << AW_GOING, AW_GOING >>
  /\ transcript_norm = << AW_3, AW_THREE >>
  /\ c = 2
  /\ t = 2
  /\ alignment = (0 :> 0) @@ (1 :> 1)

(***************************************************************************)
(* C21.                                                                    *)
(***************************************************************************)
\* the step that leaves the main loop and returns the alignment
ReturnStep == pc = "align" /\ pc' = "extract"

\* C21: when the loop ends with cue words left and the transcript is not
\* empty, the returned alignment maps every remaining cue position c .. n-1 to
\* the last transcript index m-1 and keeps the entries of the loop; when the
\* transcript is empty the returned alignment is empty.
C21_TailAssignment ==
  [][ReturnStep =>
       LET n == Len(flat_cue_words)
           m == Len(transcript_norm)
       IN  /\ (c < n /\ m > 0) =>
                /\ DOMAIN alignment' = DOMAIN alignment \cup c..(n - 1)
                /\ \A k \in c..(n - 1) : alignment'[k] = m - 1
                /\ \A k \in DOMAIN alignment \ c..(n - 1) : alignment'[k] = alignment[k]
           /\ m = 0 => DOMAIN alignment' = {}]_vars

\* one transcript word for three cue words: the loop mapped the first, the
\* tail assignment the other two
C21_Witness ==
  /\ Aligned
  /\ Len(flat_cue_words) = 3
  /\ Len(transcript_norm) = 1
  /\ c = 1
  /\ alignment = (0 :> 0) @@ (1 :> 0) @@ (2 :> 0)

(***************************************************************************)
(* C22.                                                                    *)
(***************************************************************************)
\* C22: words_similar is order-independent: the value returned for (a, b) is
\* the value of words_similar(b, a).
C22_OrderIndependent ==
  SimilarReturned => call.ret[1] = words_similar(call.args[2], call.args[1])

\* a prefix pair with the longer word first, found similar
C22_Witness ==
  /\ SimilarReturned
  /\ call.args = << <<"g","o","i","n","g">>, <<"g","o","i">> >>
  /\ call.ret[1] = TRUE

(***************************************************************************)
(* C23.                                                                    *)
(***************************************************************************)
\* C23 as stated: words_similar(a, a) is true for every string a that
\* normalize_word can return, the empty string included.
C23_EqualAlwaysSimilar ==
  (SimilarReturned /\ call.args[1] = call.args[2]) => call.ret[1] = TRUE

\* C23 amended: words_similar(a, a) is true for every non-empty string a that
\* normalize_word can return, and false for the empty string.
C23_EqualSimilar ==
  (SimilarReturned /\ call.args[1] = call.args[2]) =>
    call.ret[1] = (call.args[1] # <<>>)

\* a two-character word, which no other rule covers, against itself
C23_Witness ==
  /\ SimilarReturned
  /\ call.args = << <<"g","o">>, <<"g","o">> >>
  /\ call.ret[1] = TRUE

(***************************************************************************)
(* C24.                                                                    *)
(***************************************************************************)
NormalizeReturned == call.fn = "normalize_word" /\ call.ret # <<>>

\* C24: the output of normalize_word holds lowercase letters and digits only
\* (no punctuation, no underscore, no blank), and normalizing it again leaves
\* it as it is.
C24_LowercaseAlphanumeric ==
  NormalizeReturned =>
    /\ \A k \in DOMAIN call.ret[1] :
         call.ret[1][k] \in Range(LowerLetters) \cup Range(DigitChars)
    /\ normalize_word(call.ret[1]) = call.ret[1]

(***************************************************************************)
(* C25.                                                                    *)
(***************************************************************************)
\* an ordinal token of a multiple of ten whose cardinal ends in a tens word:
\* 20th .. 90th, 120th, ...
TensOrdinal(token) ==
  /\ OrdinalOf(token) >= 20
  /\ OrdinalOf(token) % 10 = 0
  /\ OrdinalOf(token) % 100 >= 20

\* the cardinal words of n with the final 'y' replaced by 'ieth'
CardinalIeth(n) ==
  LET cardinal == _int_to_words(n)
      last     == cardinal[Len(cardinal)]
  IN  [cardinal EXCEPT ![Len(cardinal)] =
         SubSeq(last, 1, Len(last) - 1) \o <<"i","e","t","h">>]

\* C25: the expansion of an ordinal token of a multiple of ten whose cardinal
\* ends in a tens word is the cardinal with the final 'y' replaced by 'ieth',
\* for 20th .. 90th and for larger numbers such as 120th.
C25_TensOrdinal ==
  (ExpandReturned /\ \E k \in DOMAIN call.args[1] : TensOrdinal(call.args[1][k])) =>
    call.ret[1] =
      Concat([k \in DOMAIN call.args[1] |->
                LET token == call.args[1][k]
                IN  IF TensOrdinal(token)
                      THEN CardinalIeth(OrdinalOf(token))
                      ELSE << token >>])

(***************************************************************************)
(* C26.                                                                    *)
(***************************************************************************)
\* step 2 has run
Flattened == pc \notin {"start", "flatten"}

\* C26: after flattening the cue ranges are adjacent and in cue order, cover
\* exactly the positions 0 .. n-1 of the flat cue-word list, hold the cue's
\* own normalized words, and are empty (last = first - 1) for a cue without
\* normalized words.
C26_ContiguousRanges ==
  Flattened =>
    /\ Len(cue_ranges) = Len(cue_lines)
    /\ \A k \in DOMAIN cue_ranges :
         /\ cue_ranges[k][1] = (IF k = 1 THEN 0 ELSE cue_ranges[k - 1][2] + 1)
         /\ cue_ranges[k][2] >= cue_ranges[k][1] - 1
         /\ words_in_cue(expanded_cues[k]) = <<>> =>
              cue_ranges[k][2] = cue_ranges[k][1] - 1
    /\ cue_ranges # <<>> =>
         cue_ranges[Len(cue_ranges)][2] = Len(flat_cue_words) - 1
    /\ cue_ranges = <<>> => flat_cue_words = <<>>
    /\ \A k \in DOMAIN cue_ranges :
         SubSeq(flat_cue_words, cue_ranges[k][1] + 1, cue_ranges[k][2] + 1)
           = words_in_cue(expanded_cues[k])

\* three cues flattened, the middle one without normalized words: its range
\* is empty and the range of the third cue follows that of the first
C26_Witness ==
  /\ pc = "normalize"
  /\ cue_ranges = << << 0, 0 >>, << 1, 0 >>, << 1, 1 >> >>
  /\ Len(flat_cue_words) = 2

(***************************************************************************)
(* C27.                                                                    *)
(***************************************************************************)
\* step 5 has run and step 6 has not
Extracted == pc = "interpolate"

\* no word of the cue of cue_ranges[k] is similar to any transcript word
NothingSimilar(k) ==
  \A ci \in cue_ranges[k][1]..cue_ranges[k][2] :
    \A j \in DOMAIN transcript_norm :
      ~words_similar(At(flat_cue_words, ci), transcript_norm[j])

\* C27: with a non-empty transcript align_sequences returns a mapping on all
\* of 0 .. n-1, every cue with a normalized word gets score 1.0 and status
\* 'matched' from step 5 and keeps them, and 'partial' is the status of
\* interpolated results only: step 5 never produces it.
C27_TotalAlignment ==
  /\ (Aligned /\ words # <<>>) =>
       DOMAIN alignment = 0..(Len(flat_cue_words) - 1)
  /\ ((Extracted \/ Returned) /\ words # <<>>) =>
       \A k \in DOMAIN results :
         CueWordCount(k) > 0 =>
           results[k].status = "matched" /\ results[k].score = 1000
  /\ Extracted => \A k \in DOMAIN results : results[k].status # "partial"
  /\ Returned =>
       \A k \in DOMAIN results :
         results[k].status = "partial" =>
           results[k].matched_text = INTERPOLATED /\ CueWordCount(k) = 0

\* a cue none of whose words is similar to any transcript word, returned as
\* 'matched' with score 1.0, next to an interpolated 'partial' result
C27_Witness ==
  /\ Returned
  /\ \E k \in DOMAIN results :
       /\ CueWordCount(k) > 0
       /\ NothingSimilar(k)
       /\ results[k].status = "matched"
       /\ results[k].score = 1000
  /\ \E k \in DOMAIN results : results[k].status = "partial"

(***************************************************************************)
(* C28.                                                                    *)
(***************************************************************************)
\* C28: every key of the alignment is a cue position and every value a
\* transcript index; at the head of an iteration with c > 0 cue position c-1
\* is mapped to t-1; the values of two consecutive cue positions differ by at
\* most MAX_LOOK + 1; and the look-ahead of an iteration reads inside both
\* lists.
C28_AlignmentInRange ==
  LET n == Len(flat_cue_words)
      m == Len(transcript_norm)
  IN  /\ \A k \in DOMAIN alignment :
           k \in 0..(n - 1) /\ alignment[k] \in 0..(m - 1)
      /\ (pc = "align" /\ c > 0) =>
           (c - 1) \in DOMAIN alignment /\ alignment[c - 1] = t - 1
      /\ \A k \in DOMAIN alignment :
           (k + 1) \in DOMAIN alignment =>
             /\ alignment[k + 1] - alignment[k] <= MAX_LOOK + 1
             /\ alignment[k] - alignment[k + 1] <= MAX_LOOK + 1
      /\ InLoop =>
           /\ CueReads(c, t, n, m) \subseteq 0..(n - 1)
           /\ TranscriptReads(c, t, n, m) \subseteq 0..(m - 1)

\* after a skip-transcript with the largest offset, 15: the values of cue
\* positions 0 and 1 are 16 apart
C28_Witness ==
  /\ pc = "align"
  /\ c = 2
  /\ t = MAX_LOOK + 2
  /\ alignment = (0 :> 0) @@ (1 :> MAX_LOOK + 1)
(***************************************************************************)
(* create_video.py: main from step 5 on.  A text is the sequence of its    *)
(* whitespace-separated tokens; a time is a count of 25 ms units; a score  *)
(* is kept as its numerator, the number of search words found.             *)
(***************************************************************************)
MaxParas == 3

\* search_word_count = min(8, len(para_words))
SEARCH_WORDS == 8

\* best_match_idx = None
NO_MATCH == -1

IsNonEmpty(w) == w # <<>>

\* normalize_text(text).split(): lower(), re.sub(r'[^\w\s]', '', text), then
\* ' '.join(text.split())
normalize_text(text) ==
  SelectSeq([k \in DOMAIN text |-> SelectSeq(lower(text[k]), IsWordChar)],
            IsNonEmpty)

\* " ".join(ws) as one string
RECURSIVE join_space(_)
join_space(ws) ==
  IF ws = <<>> THEN <<>>
  ELSE IF Len(ws) = 1 THEN ws[1]
  ELSE ws[1] \o <<" ">> \o join_space(Tail(ws))

\* sw in window_text: the substring test of str
IsSubstring(sw, text) ==
  \E k \in 0..(Len(text) - Len(sw)) : SubSeq(text, k + 1, k + Len(sw)) = sw

\* window_text of the window that starts at word j
window_text(all_words, j, search_word_count) ==
  join_space([k \in 1..(Min2(j + search_word_count, Len(all_words)) - j) |->
                join_space(normalize_text(At(all_words, j + k - 1).word))])

\* match_count = sum(1 for sw in search_words if sw in window_text)
match_count(search_words, all_words, j) ==
  Cardinality({k \in DOMAIN search_words :
                 IsSubstring(search_words[k],
                             window_text(all_words, j, Len(search_words)))})

\* the for j loop from j on: <<best_match_idx, match count of the best>>;
\* every score of one paragraph has the denominator len(search_words), so
\* score > best_match_score compares the counts and score > 0.8 is
\* 10 * match_count > 8 * len(search_words)
RECURSIVE find_best(_, _, _, _, _)
find_best(search_words, all_words, j, best_match_idx, best_count) ==
  IF j >= Len(all_words) - Len(search_words) + 1
    THEN << best_match_idx, best_count >>
    ELSE LET mc     == match_count(search_words, all_words, j)
             better == mc > best_count
             idx    == IF better THEN j ELSE best_match_idx
             cnt    == IF better THEN mc ELSE best_count
         IN  IF 10 * mc > 8 * Len(search_words)
               THEN << idx, cnt >>
               ELSE find_best(search_words, all_words, j + 1, idx, cnt)

\* score = match_count / len(search_words) raises ZeroDivisionError when the
\* paragraph has no word left after normalize_text and the for j loop runs
RaisesZeroDivision(para_words, all_words, current_word_idx) ==
  /\ para_words = <<>>
  /\ current_word_idx < Len(all_words) + 1

\* the sorted image_files once cut to len(paragraphs): the image of
\* paragraph p is the p-th
image_files_of(paragraphs) == [p \in 1..Len(paragraphs) |-> p]

\* one iteration of the step 5 loop: for i, para in enumerate(paragraphs)
MatchParagraph ==
  /\ video # NoVideo
  /\ video.pc = "match"
  /\ video.i < Len(video.paragraphs)
  /\ LET para            == At(video.paragraphs, video.i)
         para_words      == normalize_text(para)
         search_words    == SubSeq(para_words, 1, Min2(SEARCH_WORDS, Len(para_words)))
         all_words       == video.all_words
         best            == find_best(search_words, all_words,
                                      video.current_word_idx, NO_MATCH, 0)
         best_match_idx  == best[1]
         end_word_idx    == Min2(best_match_idx + Len(para_words), Len(all_words) - 1)
     IN  IF RaisesZeroDivision(para_words, all_words, video.current_word_idx)
           THEN video' = [video EXCEPT !.pc = "error"]
         ELSE IF best_match_idx # NO_MATCH /\ 2 * best[2] > Len(search_words)
           THEN video' =
                  [video EXCEPT
                     !.paragraph_times =
                        Append(@, [paragraph_num |-> video.i + 1,
                                   start |-> At(all_words, best_match_idx).start,
                                   end   |-> At(all_words, end_word_idx).end,
                                   match_score |-> (1000 * best[2]) \div Len(search_words)]),
                     !.current_word_idx = end_word_idx,
                     !.i = @ + 1]
           ELSE video' = [video EXCEPT !.i = @ + 1]
  /\ UNCHANGED << pc, cue_lines, words, expanded_cues, flat_cue_words, cue_ranges,
                  transcript_norm, c, t, alignment, results, total_audio_duration,
                  split_points, call, threads, tables, server >>

\* step 6: the end of a timing is the start of the next one, the last keeps
\* its own end
adjusted_timings_of(paragraph_times) ==
  [k \in DOMAIN paragraph_times |->
     LET timing   == paragraph_times[k]
         end_time == IF k - 1 < Len(paragraph_times) - 1
                       THEN paragraph_times[k + 1].start
                       ELSE timing.end
     IN  [paragraph_num |-> timing.paragraph_num,
          start         |-> timing.start,
          end           |-> end_time,
          duration      |-> end_time - timing.start,
          match_score   |-> timing.match_score]]

AdjustTimings ==
  /\ video # NoVideo
  /\ video.pc = "match"
  /\ video.i = Len(video.paragraphs)
  /\ video' = [video EXCEPT !.adjusted_timings = adjusted_timings_of(video.paragraph_times),
                            !.i = 0,
                            !.pc = "clips"]
  /\ UNCHANGED << pc, cue_lines, words, expanded_cues, flat_cue_words, cue_ranges,
                  transcript_norm, c, t, alignment, results, total_audio_duration,
                  split_points, call, threads, tables, server >>

\* the image a clip is made from: image_files[i]
clip_image(image_files, i, paragraph_num) == At(image_files, i)

\* one iteration of the clip loop: for i in range(len(adjusted_timings))
CreateClip ==
  /\ video # NoVideo
  /\ video.pc = "clips"
  /\ video.i < Len(video.adjusted_timings)
  /\ LET timing        == At(video.adjusted_timings, video.i)
         paragraph_num == timing.paragraph_num
         use_video     == paragraph_num \in video.scene_config
     IN  video' =
           [video EXCEPT
              !.temp_clips =
                 IF video.i < Len(video.image_files)
                   THEN Append(@, [i             |-> video.i,
                                   duration      |-> timing.duration,
                                   paragraph_num |-> paragraph_num,
                                   use_video     |-> use_video,
                                   image         |-> IF use_video THEN 0
                                                     ELSE clip_image(video.image_files,
                                                                     video.i, paragraph_num)])
                   ELSE @,
              !.i = @ + 1]
  /\ UNCHANGED << pc, cue_lines, words, expanded_cues, flat_cue_words, cue_ranges,
                  transcript_norm, c, t, alignment, results, total_audio_duration,
                  split_points, call, threads, tables, server >>

ClipsDone ==
  /\ video # NoVideo
  /\ video.pc = "clips"
  /\ video.i = Len(video.adjusted_timings)
  /\ video' = [video EXCEPT !.pc = "concat"]
  /\ UNCHANGED << pc, cue_lines, words, expanded_cues, flat_cue_words, cue_ranges,
                  transcript_norm, c, t, alignment, results, total_audio_duration,
                  split_points, call, threads, tables, server >>

\* the tokens of the transcript paragraphs and of the recognised words
VW_THE  == <<"T","h","e">>
VW_CAT  == <<"c","a","t">>
VW_CATS == <<"c","a","t","s",",">>
VW_SAT  == <<"s","a","t",".">>
VW_DOG  == <<"D","o","g">>
VW_RAN  == <<"r","a","n">>
VW_DASH == <<"-","-">>

\* the transcript lines the paragraphs are drawn from; the last has no word
ParagraphTexts ==
  { << VW_THE, VW_CAT >>,
    << VW_DOG, VW_RAN >>,
    << VW_CAT, VW_SAT >>,
    << VW_DASH >> }

\* a recognised word: its text and its times
VWord(w, s, e) == [word |-> << w >>, start |-> s, end |-> e]

\* the recognised audios: word lists with ascending times
Audios ==
  { << VWord(VW_THE, 0, 10), VWord(VW_CATS, 12, 30), VWord(VW_SAT, 30, 44) >>,
    << VWord(VW_THE, 0, 10), VWord(VW_CAT, 12, 30), VWord(VW_DOG, 34, 50),
       VWord(VW_RAN, 50, 61), VWord(VW_CAT, 70, 80), VWord(VW_SAT, 80, 96) >>,
    << VWord(VW_DOG, 4, 20), VWord(VW_DASH, 20, 22), VWord(VW_RAN, 22, 40) >> }

VideoInputs ==
  [paragraphs   : UNION {[1..n -> ParagraphTexts] : n \in 1..MaxParas},
   all_words    : Audios,
   scene_config : {{}, {2}}]

InitVideo ==
  /\ \E in \in VideoInputs :
       video = [pc               |-> "match",
                paragraphs       |-> in.paragraphs,
                image_files      |-> image_files_of(in.paragraphs),
                scene_config     |-> in.scene_config,
                all_words        |-> in.all_words,
                i                |-> 0,
                current_word_idx |-> 0,
                paragraph_times  |-> <<>>,
                adjusted_timings |-> <<>>,
                temp_clips       |-> <<>>]
  /\ pc = "video"
  /\ cue_lines = <<>>
  /\ words = <<>>
  /\ expanded_cues = <<>>
  /\ flat_cue_words = <<>>
  /\ cue_ranges = <<>>
  /\ transcript_norm = <<>>
  /\ c = 0
  /\ t = 0
  /\ alignment = <<>>
  /\ results = <<>>
  /\ total_audio_duration = 0
  /\ split_points = <<>>
  /\ call = NO_CALL
  /\ threads = <<>>
  /\ tables = LoadedTables
  /\ server = NoServer

NextVideo ==
  \/ MatchParagraph
  \/ AdjustTimings
  \/ CreateClip
  \/ ClipsDone

SpecVideo == InitVideo /\ [][NextVideo]_vars

(***************************************************************************)
(* C29.                                                                    *)
(***************************************************************************)
\* C29: every clip made from an image pairs the timing of paragraph p with
\* the p-th image, as the scene video lookup is keyed by p; and the adjusted
\* timings are contiguous, with durations that are not negative.
C29_ClipPairsParagraphImage ==
  (video # NoVideo /\ video.pc \in {"clips", "concat"}) =>
    /\ \A k \in DOMAIN video.temp_clips :
         LET clip == video.temp_clips[k]
         IN  ~clip.use_video =>
               clip.image = video.image_files[clip.paragraph_num]
    /\ \A k \in 1..(Len(video.adjusted_timings) - 1) :
         video.adjusted_timings[k].end = video.adjusted_timings[k + 1].start
    /\ \A k \in DOMAIN video.adjusted_timings :
         video.adjusted_timings[k].duration >= 0
(***************************************************************************)
(* The server's shared directories.  Every request works in the same       *)
(* PROJECT_ROOT/input and PROJECT_ROOT/output; the development server      *)
(* serves requests in threads, so the steps of requests interleave.  A     *)
(* directory is the sequence of its path components; a file is a record    *)
(* of its directory, its kind, its number and its content, and the content *)
(* of an upload is the number of the request that uploaded it.             *)
(***************************************************************************)
MaxRequests == 2
MaxSegments == 2

INPUT_DIR  == << "input" >>
OUTPUT_DIR == << "output" >>

\* work_dir and output_dir of split_audio
WORK_DIR         == << "input", "split_audio" >>
SPLIT_OUTPUT_DIR == << "output", "split_audio" >>

\* rm_input_dir of regional_mix and the directories it makes in it
RM_INPUT_DIR == << "input", "regional_mix" >>
RM_MEDIA_DIR == << "input", "regional_mix", "media" >>
RM_AUDIO_DIR == << "input", "regional_mix", "audio" >>

\* images_dir and videos_dir of generate_video
IMAGES_DIR == << "input", "images" >>
VIDEOS_DIR == << "input", "videos" >>

IsPrefix(d, e) == Len(d) <= Len(e) /\ SubSeq(e, 1, Len(d)) = d

\* shutil.rmtree(d)
rmtree(fs, d) ==
  [dirs  |-> {e \in fs.dirs : ~IsPrefix(d, e)},
   files |-> {f \in fs.files : ~IsPrefix(d, f.dir)}]

\* d.mkdir(parents=True, exist_ok=True)
mkdir(fs, d) ==
  [dirs  |-> fs.dirs \cup {SubSeq(d, 1, k) : k \in 1..Len(d)},
   files |-> fs.files]

\* if d.exists(): for item in d.iterdir(): rmtree or unlink; d itself stays
clear_items(fs, d) ==
  [dirs  |-> {e \in fs.dirs : ~(IsPrefix(d, e) /\ e # d)},
   files |-> {f \in fs.files : ~IsPrefix(d, f.dir)}]

\* the file of a kind and number in a directory, as a set: empty when absent
FileAt(fs, d, kind, n) ==
  {f \in fs.files : f.dir = d /\ f.kind = kind /\ f.n = n}

\* writing a file replaces the one of the same name
write_file(fs, d, kind, n, content) ==
  [dirs  |-> fs.dirs,
   files |-> (fs.files \ FileAt(fs, d, kind, n))
               \cup {[dir |-> d, kind |-> kind, n |-> n, content |-> content]}]

FileSystem == [dirs |-> server.dirs, files |-> server.files]

\* a request that has arrived: the server numbers them in order of arrival
NewRequest(kind, position, cue_count) ==
  [kind        |-> kind,
   pc          |-> position,
   cue_count   |-> cue_count,
   i           |-> 0,
   split_files |-> <<>>]

CanArrive == server # NoServer /\ Len(server.requests) < MaxRequests

ServerUnchanged ==
  UNCHANGED << pc, cue_lines, words, expanded_cues, flat_cue_words, cue_ranges,
               transcript_norm, c, t, alignment, results, total_audio_duration,
               split_points, call, threads, tables, video >>

SetServer(fs, requests) ==
  server' = [dirs |-> fs.dirs, files |-> fs.files, requests |-> requests]

\* clear_files: every item of input and of output is deleted
ClearFiles ==
  /\ CanArrive
  /\ SetServer(clear_items(clear_items(FileSystem, INPUT_DIR), OUTPUT_DIR),
               Append(server.requests, NewRequest("clear-files", "done", 0)))
  /\ ServerUnchanged

\* regional_mix, up to the saving of its uploads: input/regional_mix and the
\* whole output directory are removed and made again
RegionalMix ==
  /\ CanArrive
  /\ LET r  == Len(server.requests) + 1
         fs == write_file(
                 mkdir(mkdir(mkdir(rmtree(mkdir(rmtree(FileSystem, RM_INPUT_DIR),
                                                RM_INPUT_DIR),
                                          OUTPUT_DIR),
                                   OUTPUT_DIR),
                             RM_MEDIA_DIR),
                       RM_AUDIO_DIR),
                 RM_AUDIO_DIR, "audio", 1, r)
     IN  SetServer(fs, Append(server.requests, NewRequest("regional-mix", "done", 0)))
  /\ ServerUnchanged

\* generate_video, up to the saving of its uploads: the whole input and
\* output directories are removed and made again
GenerateVideo ==
  /\ CanArrive
  /\ LET r  == Len(server.requests) + 1
         fs == write_file(
                 mkdir(mkdir(mkdir(rmtree(mkdir(rmtree(FileSystem, INPUT_DIR),
                                                INPUT_DIR),
                                          OUTPUT_DIR),
                                   OUTPUT_DIR),
                             IMAGES_DIR),
                       VIDEOS_DIR),
                 INPUT_DIR, "audio", 0, r)
     IN  SetServer(fs, Append(server.requests, NewRequest("generate-video", "done", 0)))
  /\ ServerUnchanged

\* split_audio: a request with both uploads arrives
SplitAudioArrive ==
  /\ CanArrive
  /\ \E cue_count \in 1..MaxSegments :
       SetServer(FileSystem,
                 Append(server.requests, NewRequest("split-audio", "setup", cue_count)))
  /\ ServerUnchanged

\* split_audio: work_dir and output_dir are removed and made again
clear_split_dirs(fs) ==
  mkdir(rmtree(mkdir(rmtree(fs, WORK_DIR), WORK_DIR), SPLIT_OUTPUT_DIR),
        SPLIT_OUTPUT_DIR)

SplitAudioSetupAt(r) ==
  /\ server.requests[r].pc = "setup"
  /\ SetServer(clear_split_dirs(FileSystem),
               [server.requests EXCEPT ![r].pc = "save"])
  /\ ServerUnchanged

SplitAudioSetup == \E r \in DOMAIN server.requests : SplitAudioSetupAt(r)

\* split_audio: the uploads are saved as input_audio and cues.txt; a save
\* into a directory that is gone raises, and the handler answers 500
SplitAudioSaveAt(r) ==
  /\ server.requests[r].pc = "save"
  /\ IF WORK_DIR \in server.dirs
       THEN SetServer(write_file(write_file(FileSystem, WORK_DIR, "audio", 0, r),
                                 WORK_DIR, "cues", 0, r),
                      [server.requests EXCEPT ![r].pc = "transcribe"])
       ELSE SetServer(FileSystem, [server.requests EXCEPT ![r].pc = "failed"])
  /\ ServerUnchanged

SplitAudioSave == \E r \in DOMAIN server.requests : SplitAudioSaveAt(r)

\* generate, steps 1 to 4: transcribe_audio_to_words reads audio_path_str;
\* an exception ends the stream with an error event
TranscribeAt(r) ==
  /\ server.requests[r].pc = "transcribe"
  /\ SetServer(FileSystem,
               [server.requests EXCEPT
                  ![r].pc = IF FileAt(FileSystem, WORK_DIR, "audio", 0) = {}
                              THEN "error" ELSE "split"])
  /\ ServerUnchanged

Transcribe == \E r \in DOMAIN server.requests : TranscribeAt(r)

\* generate, step 5, one cue: ffmpeg -y -i audio_path_str ... output_path;
\* it fails when the input or the output directory is gone, and the segment
\* holds a part of whatever audio the input file holds now
SplitCueAt(r) ==
  /\ server.requests[r].pc = "split"
  /\ server.requests[r].i < server.requests[r].cue_count
  /\ LET req    == server.requests[r]
         audio  == FileAt(FileSystem, WORK_DIR, "audio", 0)
         failed == audio = {} \/ SPLIT_OUTPUT_DIR \notin server.dirs
         fs     == IF failed THEN FileSystem
                   ELSE write_file(FileSystem, SPLIT_OUTPUT_DIR, "segment", req.i + 1,
                                   (CHOOSE f \in audio : TRUE).content)
     IN  SetServer(fs, [server.requests EXCEPT
                          ![r].split_files = Append(@, ~failed),
                          ![r].i = @ + 1])
  /\ ServerUnchanged

SplitCue == \E r \in DOMAIN server.requests : SplitCueAt(r)

\* generate, the ZIP and the 'complete' event: ZipFile(zip_path, 'w') raises
\* when out_dir is gone, zf.write raises when a segment is gone; the archive
\* is named after the time of the request and its content is the request's
CreateZipAt(r) ==
  /\ server.requests[r].pc = "split"
  /\ server.requests[r].i = server.requests[r].cue_count
  /\ LET req     == server.requests[r]
         wanted  == {k \in DOMAIN req.split_files : req.split_files[k]}
         missing == {k \in wanted :
                       FileAt(FileSystem, SPLIT_OUTPUT_DIR, "segment", k) = {}}
     IN  IF SPLIT_OUTPUT_DIR \notin server.dirs
           THEN SetServer(FileSystem, [server.requests EXCEPT ![r].pc = "error"])
         ELSE IF missing # {}
           THEN SetServer(write_file(FileSystem, SPLIT_OUTPUT_DIR, "zip", r, r),
                          [server.requests EXCEPT ![r].pc = "error"])
         ELSE SetServer(write_file(FileSystem, SPLIT_OUTPUT_DIR, "zip", r, r),
                        [server.requests EXCEPT ![r].pc = "complete"])
  /\ ServerUnchanged

CreateZip == \E r \in DOMAIN server.requests : CreateZipAt(r)

InitServer ==
  /\ server = [dirs |-> {INPUT_DIR, OUTPUT_DIR}, files |-> {}, requests |-> <<>>]
  /\ pc = "server"
  /\ cue_lines = <<>>
  /\ words = <<>>
  /\ expanded_cues = <<>>
  /\ flat_cue_words = <<>>
  /\ cue_ranges = <<>>
  /\ transcript_norm = <<>>
  /\ c = 0
  /\ t = 0
  /\ alignment = <<>>
  /\ results = <<>>
  /\ total_audio_duration = 0
  /\ split_points = <<>>
  /\ call = NO_CALL
  /\ threads = <<>>
  /\ tables = LoadedTables
  /\ video = NoVideo

NextServer ==
  \/ ClearFiles
  \/ RegionalMix
  \/ GenerateVideo
  \/ SplitAudioArrive
  \/ SplitAudioSetup
  \/ SplitAudioSave
  \/ Transcribe
  \/ SplitCue
  \/ CreateZip

SpecServer == InitServer /\ [][NextServer]_vars

(***************************************************************************)
(* C30.                                                                    *)
(***************************************************************************)
\* the stream of request r is open and has not emitted its final event
Streaming(r) ==
  /\ server.requests[r].kind = "split-audio"
  /\ server.requests[r].pc \in {"transcribe", "split"}

\* C30: while the stream of a /api/split-audio request has not emitted its
\* final event, the request's input audio and cues file and every segment it
\* has written are on disk and hold the request's own data.
C30_FilesIntactWhileStreaming ==
  server # NoServer =>
    \A r \in DOMAIN server.requests :
      Streaming(r) =>
        /\ \E f \in FileAt(FileSystem, WORK_DIR, "audio", 0) : f.content = r
        /\ \E f \in FileAt(FileSystem, WORK_DIR, "cues", 0) : f.content = r
        /\ \A k \in DOMAIN server.requests[r].split_files :
             server.requests[r].split_files[k] =>
               \E f \in FileAt(FileSystem, SPLIT_OUTPUT_DIR, "segment", k) :
                 f.content = r

====
